---- MODULE Spec2Model ----
(***************************************************************************)
(* Verification model of the methylome query engine (mxe).                 *)
(*                                                                         *)
(*  - SpecConn : one server connection, src/src/connection.cpp.  Every     *)
(*    action is one completion handler of an asynchronous operation, with  *)
(*    every call the handler makes before it returns.                      *)
(*  - SpecCache: the methylome-set cache; its operations follow sections   *)
(*    4.3 and 5 of the specification.                                      *)
(***************************************************************************)
EXTENDS Integers, Sequences, FiniteSets, TLC

(***************************************************************************)
(* Bounds of the model.                                                    *)
(***************************************************************************)
\* largest n_intervals a request of the model carries
MaxIntervals == 2
\* number of concurrent request handlers calling methylome_set::get
NumThreads == 2
\* number of distinct accessions
NumAccessions == 3
\* total number of loads the model starts
MaxLoads == 3
\* largest capacity the methylome set is configured with (-r MAX_RESIDENT)
MaxResident == 2
\* width in bits of the model's unsigned integers (32 in the program, scaled
\* down so that the values stay enumerable)
UintBits == 6

\* the most fields a response has besides its status line
MaxFields == 1
\* width in bits of a count of the methylome (16 in the program)
CountBits == 5
\* largest size of a chromosome of the generated indexes
MaxChromSize == 2
\* largest bin size of the runs over the small indexes
MaxBinSize == 8
\* number of results after which the model stops a run of the bins command
MaxResults == 16
\* largest length of an accession
MaxAccLen == 2
\* number of leading bytes of a received request buffer that are arbitrary
MaxGarbage == 6
\* number of arbitrary bytes at the end of a full request buffer
MaxTail == 5
\* largest number of files of the index directory of the server
MaxIndexFiles == 2
\* largest number of pieces of the file name given to the index command
MaxPathLen == 3

(***************************************************************************)
(* Program constants.                                                      *)
(***************************************************************************)
\* sizeof(request::offset_type): a pair of two 32-bit integers
SizeofOffset == 8

VARIABLES
  \* ---- connection (src/src/connection.cpp) ----
  stage,            \* the asynchronous operation outstanding on the socket
  n_intervals,      \* req.n_intervals
  offset_byte,      \* connection::offset_byte
  offset_remaining, \* connection::offset_remaining
  resp_hdr,         \* connection::resp_hdr (its status)
  resp_buf,         \* connection::resp_buf (what it holds)
  sock_shutdown,    \* socket.shutdown(shutdown_both) was called
  sent,             \* the buffers handed to async_write, in order
  log,              \* history: the steps of the connection, in order
  err_status,       \* history: resp_hdr when respond_with_error was entered
  stored,           \* history: k-th byte of the offsets received -> the
                    \* position of req.offsets it was stored at
  peer,             \* the peer of the socket: "active", or "stalled" once it
                    \* neither sends nor closes any more
  \* ---- methylome set ----
  max_live_methylomes, \* capacity of the set, fixed at construction
  entry,            \* accession -> state of its map entry
  lru,              \* recency list of the resident accessions, LRU first
  tstate,           \* thread -> where it is in get()
  tacc,             \* thread -> accession it asked for
  thandle,          \* thread -> payload object it holds a handle to (0: none)
  refcount,         \* payload object -> number of owners
  payload,          \* payload object -> its bytes
  n_loads,          \* number of loads started so far (names the payloads)
  s5,               \* history: progress of the scenario "gets of A,B,A,C"
  get_order,        \* history: accessions by last successful get, oldest first
  load_calls,       \* history: accession -> the loads of it in flight
  \* ---- request (src/src/request.hpp) ----
  request,          \* request::accession, methylome_size, n_intervals
  buf,              \* request::buf
  rq_pc,            \* where the request is between to_buffer and from_buffer
  rq_status,        \* the status from_buffer returned
  rq_in,            \* history: the request that was given to to_buffer
  \* ---- CpG index, methylome, interval query ----
  index,            \* the cpg_index
  meth,             \* methylome::cpgs
  gis,              \* the intervals of the query
  offsets,          \* what get_offsets returned for them
  counts,           \* the counts of the response
  q_pc,             \* where the query is
  \* ---- bins command (src/src/bins.cpp) ----
  bin_size,         \* bin_size
  results,          \* results
  results_exact,    \* history: the sums of results without integer width
  bins,             \* history: the bin each result was computed for
  ch,               \* the chromosome the loop over zipped is at
  bin_i,            \* i of the loop over the bins
  posn_itr,         \* posn_itr, as an offset from cbegin(positions)
  cpg_itr,          \* cpg_itr, as an offset from cbegin(meth.cpgs)
  b_pc,             \* where bins_main is
  \* ---- saturation of counts ----
  n_meth,           \* the count of methylated reads being stored
  n_unmeth,         \* the count of unmethylated reads being stored
  counts_in,        \* history: the two counts as they were read
  r_pc,             \* where the rounding is
  \* ---- commands (command_server_main, command_index_main) ----
  cmd,              \* the command that runs
  cmd_pc,           \* where its main is
  cmd_in,           \* the command line, and what the environment answered
  effects,          \* history: what main did, in order
  exit_code,        \* what main returned
  \* ---- client (src/unnamed/part_003) ----
  c_op,             \* the operation on the network that is outstanding
  c_aborted,        \* that operation was cancelled by closing the socket
  c_socket,         \* mc16_client::socket: "unopened", "open", "closed"
  c_shutdown,       \* socket.shutdown(shutdown_both) was called
  deadline,         \* mc16_client::deadline: its expiry, whether the clock
                    \* has reached it, and its wait
  ready,            \* the handlers that are ready to run, oldest first
  c_status,         \* mc16_client::status (the stage whose error it holds)
  c_hdr,            \* the response header that was received
  c_hist,           \* history: a stage has failed; the operation that was
                    \* outstanding when the deadline passed; a handler has
                    \* ended the transaction
  main_pc,          \* where lookup_client_main is
  c_exit,           \* what lookup_client_main returned
  c_out,            \* the output file was written
  \* ---- the connection between a client and the server ----
  cl_n,             \* req.n_intervals of the client
  cl_written,       \* the bytes of the request the connection has taken
                    \* from the async_write of the client
  \* ---- the CpG index set (src/unnamed/part_000) ----
  set_dir,          \* the files of the index directory, in iteration order
  set_k,            \* the file the directory iterator is at
  idx_map,          \* assembly_to_cpg_index: assembly -> the file read
  meta_map,         \* assembly_to_cpg_index_meta: assembly -> the file read
  set_pc,           \* where the constructor is
  set_answer,       \* what the last get_cpg_index_with_meta returned
  \* ---- the compression adapter (src/src/zlib_adapter.hpp) ----
  z_fn,             \* the function that runs: "compress" or "decompress"
  z_in,             \* the call: whether the build has NDEBUG, the size of
                    \* the data, the room of out, whether the compressed
                    \* bytes are complete and sound
  z_pc,             \* where the function is
  z_ret,            \* history: what the calls of zlib have returned
  z_strm,           \* the z_stream: "none", "live" (initialised) or "ended"
  z_ends,           \* history: the calls of deflateEnd / inflateEnd
  z_assert,         \* history: an assertion of the function has failed
  z_result,         \* the error code the function has returned
  \* ---- the download (src/src/download.cpp) ----
  dl_in,            \* the call: what the file system, the network and the
                    \* server answer
  dl_pc,            \* where download is
  dl_file,          \* the output file exists
  dl_ec,            \* ec of download: "none" when it is not set
  dl_header,        \* the header map
  dl_failed         \* history: the operation of do_download that failed

connVars == <<stage, n_intervals, offset_byte, offset_remaining, resp_hdr,
              resp_buf, sock_shutdown, sent, log, err_status, stored, peer>>
cacheVars == <<max_live_methylomes, entry, lru, tstate, tacc, thandle,
               refcount, payload, n_loads, s5, get_order, load_calls>>
codecVars == <<request, buf, rq_pc, rq_status, rq_in>>
kernelVars == <<index, meth>>
queryVars == <<gis, offsets, counts, q_pc>>
binsVars == <<bin_size, results, results_exact, bins, ch, bin_i, posn_itr,
              cpg_itr, b_pc>>
roundVars == <<n_meth, n_unmeth, counts_in, r_pc>>
\* the variables of the commands and of the helpers
cmdVars == <<cmd, cmd_pc, cmd_in, effects, exit_code>>
clientVars == <<c_op, c_aborted, c_socket, c_shutdown, deadline, ready,
                c_status, c_hdr, c_hist, main_pc, c_exit, c_out>>
wireVars == <<cl_n, cl_written>>
setVars == <<set_dir, set_k, idx_map, meta_map, set_pc, set_answer>>
\* the variables of the helpers of the server and of the commands
zVars == <<z_fn, z_in, z_pc, z_ret, z_strm, z_ends, z_assert, z_result>>
dlVars == <<dl_in, dl_pc, dl_file, dl_ec, dl_header, dl_failed>>
lateVars == <<setVars, zVars, dlVars>>
extVars == <<roundVars, cmdVars, clientVars, wireVars, lateVars>>
vars == <<connVars, cacheVars, codecVars, kernelVars, queryVars, binsVars,
          extVars>>
\* the variables a step of the connection leaves alone
nonConnVars ==
  <<cacheVars, codecVars, kernelVars, queryVars, binsVars, extVars>>
\* the variables a step of the methylome set leaves alone
nonCacheVars ==
  <<connVars, codecVars, kernelVars, queryVars, binsVars, extVars>>
\* the variables a step of the request codec leaves alone
nonCodecVars ==
  <<connVars, cacheVars, kernelVars, queryVars, binsVars, extVars>>
\* the variables a step of an interval query leaves alone
nonQueryVars ==
  <<connVars, cacheVars, codecVars, binsVars, extVars>>
\* the variables a step of the bins command leaves alone
nonBinsVars ==
  <<connVars, cacheVars, codecVars, queryVars, extVars>>
\* the variables of the server and of the data
coreVars ==
  <<connVars, cacheVars, codecVars, kernelVars, queryVars, binsVars>>
\* the variables the rounding of a pair of counts leaves alone
nonRoundVars == <<coreVars, cmdVars, clientVars, wireVars, lateVars>>
\* the variables a step of a command leaves alone
nonCmdVars == <<coreVars, roundVars, clientVars, wireVars, lateVars>>
\* the variables a step of the client leaves alone
nonClientVars == <<coreVars, roundVars, cmdVars, wireVars, lateVars>>
\* the variables a step of a helper leaves alone
earlyVars == <<coreVars, roundVars, cmdVars, clientVars, wireVars>>
\* the variables a step of the index set leaves alone
nonSetVars == <<earlyVars, zVars, dlVars>>
\* the variables a step of the compression adapter leaves alone
nonZVars == <<earlyVars, setVars, dlVars>>
\* the variables a step of the download leaves alone
nonDlVars == <<earlyVars, setVars, zVars>>

(***************************************************************************)
(* Status codes.                                                           *)
(***************************************************************************)
\* the statuses handle_header / handle_get_counts can leave in resp_hdr
ErrorStatuses ==
  {"bad_request", "unknown_accession", "methylome_size_mismatch"}
Statuses == {"ok"} \cup ErrorStatuses

\* response_header::error()
IsError(st) == st # "ok"

\* response_header::bad_request()
bad_request == "bad_request"

(***************************************************************************)
(* Serialisation of the response header.                                   *)
(***************************************************************************)
\* a response buffer nothing was serialised into (value-initialised array)
ZeroBuf == <<"zero">>

\* to_chars(resp_buf, resp_hdr): the buffer that holds the header
to_chars_hdr(st) == <<"hdr", st>>

\* the outcomes of to_chars: the fixed-width header always fits the buffer,
\* so that no error is reported
to_chars(st) == {[err |-> FALSE, buf |-> to_chars_hdr(st)]}

\* from_chars(resp_buf, resp_hdr): parses the buffer INTO the header.  A
\* buffer that holds a serialised header yields it; a buffer of zero bytes
\* either fails to parse or yields the header all of whose fields are zero
\* (status 0, ok).
from_chars_hdr(b) ==
  IF b[1] = "hdr"
  THEN {[err |-> FALSE, st |-> b[2]]}
  ELSE {[err |-> TRUE, st |-> "ok"], [err |-> FALSE, st |-> "ok"]}

(***************************************************************************)
(* request::get_offsets_n_bytes, an unsigned integer of UintBits bits.     *)
(***************************************************************************)
get_offsets_n_bytes(n) == (SizeofOffset * n) % (2 ^ UintBits)

(***************************************************************************)
(* The connection: src/src/connection.cpp.                                 *)
(***************************************************************************)
ConnInit ==
  /\ stage = "constructed"
  /\ n_intervals = 0
  /\ offset_byte = 0
  /\ offset_remaining = 0
  /\ resp_hdr = "ok"
  /\ resp_buf = ZeroBuf
  /\ sock_shutdown = FALSE
  /\ sent = <<>>
  /\ log = <<>>
  /\ err_status = "none"
  /\ stored = <<>>
  /\ peer = "active"

\* connection::start: the first async_read is started
Start ==
  /\ UNCHANGED nonConnVars
  /\ stage = "constructed"
  /\ stage' = "read_request"
  /\ log' = Append(log, "read_request")
  /\ UNCHANGED <<n_intervals, offset_byte, offset_remaining, resp_hdr,
                 resp_buf, sock_shutdown, sent, err_status, stored, peer>>

\* graceful connection closure: socket.shutdown(shutdown_both, ignored_ec);
\* no asynchronous operation is started, the connection is destroyed when
\* the handler returns
Shutdown(lg) ==
  /\ sock_shutdown' = TRUE
  /\ stage' = "closed"
  /\ log' = Append(lg, "shutdown")

\* connection::respond_with_error, entered with resp_hdr = st after the
\* steps lg
respond_with_error(lg, st) ==
  /\ err_status' = st
  /\ \E r \in from_chars_hdr(resp_buf) :
       /\ resp_hdr' = (IF r.err THEN st ELSE r.st)
       /\ IF r.err
          THEN /\ Shutdown(Append(lg, "respond_with_error"))
               /\ UNCHANGED sent
          ELSE /\ stage' = "write_error"
               /\ sent' = Append(sent, resp_buf)
               /\ log' = lg \o <<"respond_with_error", "write_error">>
               /\ UNCHANGED sock_shutdown
  /\ UNCHANGED resp_buf

\* connection::prepare_to_read_offsets followed by the first read_offsets
prepare_to_read_offsets(lg, n) ==
  /\ n_intervals' = n
  /\ offset_remaining' = get_offsets_n_bytes(n)
  /\ offset_byte' = 0
  /\ stored' = <<>>
  /\ stage' = "read_offsets"
  /\ log' = Append(lg, "read_offsets")

\* a variant of HeaderParsed that does not look at the request's parse error
HeaderParsedUnchecked(lg, st, req_err, n) ==
  IF IsError(st)
  THEN /\ respond_with_error(lg, st)
       /\ UNCHANGED <<n_intervals, offset_byte, offset_remaining, stored>>
  ELSE /\ prepare_to_read_offsets(
            Append(lg, IF req_err THEN "request_parse_error"
                                  ELSE "request_parsed"), n)
       /\ UNCHANGED <<resp_hdr, resp_buf, sock_shutdown, sent, err_status>>

\* the completion handler of read_request whose header parsed: handle_header
\* has left st in resp_hdr
HeaderParsed(lg, st, req_err, n) ==
  IF IsError(st)
  THEN /\ respond_with_error(lg, st)
       /\ UNCHANGED <<n_intervals, offset_byte, offset_remaining, stored>>
  ELSE IF req_err
  THEN /\ respond_with_error(Append(lg, "request_parse_error"), bad_request)
       /\ UNCHANGED <<n_intervals, offset_byte, offset_remaining, stored>>
  ELSE /\ prepare_to_read_offsets(Append(lg, "request_parsed"), n)
       /\ UNCHANGED <<resp_hdr, resp_buf, sock_shutdown, sent, err_status>>

\* the completion handler of read_request whose header did not parse
HeaderParseError(lg) ==
  /\ respond_with_error(lg, bad_request)
  /\ UNCHANGED <<n_intervals, offset_byte, offset_remaining, stored>>

\* the completion handler of the async_read of connection::read_request:
\* ec is the error code; the buffer read decides whether the header parses
\* (req_hdr_err), what handle_header answers (st), whether the request
\* parses (req_err) and its n_intervals (n), one of the values N
ReadRequest(N) ==
  /\ UNCHANGED nonConnVars
  /\ stage = "read_request"
  /\ peer = "active"
  /\ UNCHANGED peer
  /\ \E ec \in BOOLEAN :
       IF ec
       THEN /\ stage' = "closed"
            /\ log' = Append(log, "io_error")
            /\ UNCHANGED <<n_intervals, offset_byte, offset_remaining,
                           resp_hdr, resp_buf, sock_shutdown, sent,
                           err_status, stored>>
       ELSE \E req_hdr_err \in BOOLEAN :
              IF req_hdr_err
              THEN HeaderParseError(Append(log, "header_parse_error"))
              ELSE \E st \in Statuses, req_err \in BOOLEAN, n \in N :
                     HeaderParsed(log \o <<"header_parsed", "handle_header">>,
                                  st, req_err, n)

\* the requests of the clients of this repository: a few intervals
ReadRequestDone == ReadRequest(0 .. MaxIntervals)

\* request.cpp:70 parses n_intervals with from_chars into a uint32_t and
\* nothing compares it with a maximum: the values around the one whose byte
\* size no longer fits the unsigned integer, and the largest one
WideIntervals ==
  {0, 1, (2 ^ UintBits) \div SizeofOffset - 1, (2 ^ UintBits) \div SizeofOffset,
   (2 ^ UintBits) \div SizeofOffset + 1, 2 ^ UintBits - 1}

\* a request of any peer: n_intervals is any unsigned integer
ReadRequestWide == ReadRequest(WideIntervals)

\* a variant of OffsetsComplete that does not wait for the last offset
OffsetsCompleteEarly(remaining) == remaining <= SizeofOffset

\* connection.cpp:112: all the bytes of the offsets have arrived
OffsetsComplete(remaining) == remaining = 0

\* connection::respond_with_header, entered with resp_hdr = st
respond_with_header(lg, st) ==
  \E r \in to_chars(st) :
    /\ resp_buf' = r.buf
    /\ IF r.err
       THEN /\ Shutdown(Append(lg, "to_chars_error"))
            /\ UNCHANGED sent
       ELSE /\ stage' = "write_header"
            /\ sent' = Append(sent, r.buf)
            /\ log' = Append(lg, "write_header")
            /\ UNCHANGED sock_shutdown

\* a variant of read_offsets_buffer that always hands out the start of
\* req.offsets
read_offsets_buffer_from_start(byte, remaining) ==
  [pos |-> 0, size |-> remaining]

\* connection.cpp:107: the buffer handed to async_read_some,
\* asio::buffer(req.get_offsets_data() + offset_byte, offset_remaining)
read_offsets_buffer(byte, remaining) ==
  [pos |-> byte, size |-> remaining]

\* the positions the bytes of one read are stored at: n bytes from pos on
StoredAt(pos, n) == [k \in 1 .. n |-> pos + k - 1]

\* the completion handler of the async_read_some of connection::read_offsets;
\* a read into an empty buffer completes at once, with 0 bytes and no error,
\* whatever the peer does; any other read completes when the peer has sent
\* bytes or the connection has failed
ReadOffsetsDone ==
  /\ UNCHANGED nonConnVars
  /\ stage = "read_offsets"
  /\ peer = "active" \/ offset_remaining = 0
  /\ UNCHANGED peer
  /\ LET b == read_offsets_buffer(offset_byte, offset_remaining) IN
     \E ec \in (IF b.size = 0 THEN {FALSE} ELSE BOOLEAN) :
       IF ec
       THEN /\ respond_with_error(Append(log, "io_error"), resp_hdr)
            /\ UNCHANGED <<n_intervals, offset_byte, offset_remaining, stored>>
       ELSE \E bytes_transferred \in
                 (IF b.size = 0 THEN {0} ELSE 1 .. b.size) :
              /\ offset_remaining' = offset_remaining - bytes_transferred
              /\ offset_byte' = offset_byte + bytes_transferred
              /\ stored' = stored \o StoredAt(b.pos, bytes_transferred)
              /\ UNCHANGED <<n_intervals, err_status>>
              /\ IF OffsetsComplete(offset_remaining')
                 THEN \E st \in Statuses :
                        /\ resp_hdr' = st
                        /\ respond_with_header(
                             Append(log, "handle_get_counts"), st)
                 ELSE /\ stage' = "read_offsets"
                      /\ UNCHANGED <<resp_hdr, resp_buf, sock_shutdown, sent,
                                     log>>

\* connection::respond_with_counts: the counts are handed to async_write
respond_with_counts(lg) ==
  /\ stage' = "write_counts"
  /\ sent' = Append(sent, <<"counts", n_intervals>>)
  /\ log' = Append(lg, "write_counts")
  /\ UNCHANGED sock_shutdown

\* the completion handler of the async_write of respond_with_header
WriteHeaderDone ==
  /\ UNCHANGED nonConnVars
  /\ stage = "write_header"
  /\ \E ec \in BOOLEAN :
       IF ec
       THEN /\ Shutdown(Append(log, "io_error"))
            /\ UNCHANGED sent
       ELSE respond_with_counts(Append(log, "header_written"))
  /\ UNCHANGED <<n_intervals, offset_byte, offset_remaining, resp_hdr,
                 resp_buf, err_status, stored, peer>>

\* the completion handler of the async_write of respond_with_counts
WriteCountsDone ==
  /\ UNCHANGED nonConnVars
  /\ stage = "write_counts"
  /\ \E ec \in BOOLEAN :
       IF ec
       THEN /\ stage' = "closed"
            /\ log' = Append(log, "io_error")
            /\ UNCHANGED sock_shutdown
       ELSE Shutdown(Append(log, "counts_written"))
  /\ UNCHANGED <<n_intervals, offset_byte, offset_remaining, resp_hdr,
                 resp_buf, sent, err_status, stored, peer>>

\* a variant of AfterErrorWritten that goes on to write the counts
AfterErrorWrittenCounts(lg) == respond_with_counts(Append(lg, "error_written"))

\* what the completion handler of the error write does when the write
\* succeeded: graceful connection closure
AfterErrorWritten(lg) ==
  /\ Shutdown(Append(lg, "error_written"))
  /\ UNCHANGED sent

\* the completion handler of the async_write of respond_with_error
WriteErrorDone ==
  /\ UNCHANGED nonConnVars
  /\ stage = "write_error"
  /\ \E ec \in BOOLEAN :
       IF ec
       THEN /\ stage' = "closed"
            /\ log' = Append(log, "io_error")
            /\ UNCHANGED <<sock_shutdown, sent>>
       ELSE AfterErrorWritten(log)
  /\ UNCHANGED <<n_intervals, offset_byte, offset_remaining, resp_hdr,
                 resp_buf, err_status, stored, peer>>

\* the peer goes silent while an operation is outstanding on the socket:
\* from now on it sends nothing, takes nothing and does not close
PeerStalls ==
  /\ UNCHANGED nonConnVars
  /\ peer = "active"
  /\ stage \in {"read_request", "read_offsets", "write_header",
                "write_counts", "write_error"}
  /\ peer' = "stalled"
  /\ UNCHANGED <<stage, n_intervals, offset_byte, offset_remaining, resp_hdr,
                 resp_buf, sock_shutdown, sent, log, err_status, stored>>

ConnNext ==
  \/ Start
  \/ PeerStalls
  \/ ReadRequestDone
  \/ ReadOffsetsDone
  \/ WriteHeaderDone
  \/ WriteCountsDone
  \/ WriteErrorDone

\* the connection of a server that any peer can reach
ConnWideNext ==
  \/ Start
  \/ PeerStalls
  \/ ReadRequestWide
  \/ ReadOffsetsDone
  \/ WriteHeaderDone
  \/ WriteCountsDone
  \/ WriteErrorDone

(***************************************************************************)
(* The methylome set: an LRU of resident methylomes with single-flight     *)
(* loads (specification sections 4.3 and 5).  One mutex guards the list,   *)
(* the map and the entries: every action below is one critical section.    *)
(* A load runs outside the mutex, between the action that inserts the      *)
(* pending entry and the action that completes it.  A payload is owned by  *)
(* the map entry and by every handle; it is freed when its last owner      *)
(* lets go.                                                                *)
(***************************************************************************)
Threads == 1 .. NumThreads
Accessions == 1 .. NumAccessions
Objects == 1 .. MaxLoads

Absent == [state |-> "absent", obj |-> 0]

\* the accessions that have a map entry, pending or resident
InMap == {a \in Accessions : entry[a].state # "absent"}
\* the resident methylomes
Resident == {a \in Accessions : entry[a].state = "ready"}

\* the threads inside a get of accession a that has not returned yet
Loaders(a) == {t \in Threads : tstate[t] = "loading" /\ tacc[t] = a}
Waiters(a) == {t \in Threads : tstate[t] = "waiting" /\ tacc[t] = a}
InFlight == {t \in Threads : tstate[t] \in {"loading", "waiting"}}

RECURSIVE Without(_, _)
\* the list without the accession a
Without(list, a) ==
  IF list = <<>> THEN <<>>
  ELSE IF Head(list) = a THEN Without(Tail(list), a)
  ELSE <<Head(list)>> \o Without(Tail(list), a)

\* a variant of Touch that leaves an accession already listed where it is
TouchNoMove(list, a) ==
  IF \E i \in 1 .. Len(list) : list[i] = a THEN list ELSE Append(list, a)

\* a successful get makes the accession the most recently used
Touch(list, a) == Append(Without(list, a), a)

\* history: the order of the last successful gets, kept apart from the
\* cache's own list
NoteGet(order, a) ==
  Append(SelectSeq(order, LAMBDA x : x # a), a)

\* the entry a miss at capacity evicts: the least recently used
Victim(list) == Head(list)

\* a variant of AtCapacity that is off by one
AtCapacityLate(n) == n > max_live_methylomes

\* a miss finds the set at capacity
AtCapacity(n) == n >= max_live_methylomes

\* a variant of StartsLoad that takes a pending entry for a miss
StartsLoadUnlessReady(e) == e.state # "ready"

\* a get finds no entry for the accession and so starts a load
StartsLoad(e) == e.state = "absent"

\* a variant of LastOwnerGone that frees a payload whoever still owns it
LastOwnerGoneAlways(count) == count >= 0

\* a payload is freed when its last owner lets go
LastOwnerGone(count) == count = 0

\* one owner of payload o lets go: the new <<refcount, payload>>
DropOwner(rc, pl, o) ==
  LET n == rc[o] - 1 IN
  <<[rc EXCEPT ![o] = n],
    IF LastOwnerGone(n) THEN [pl EXCEPT ![o] = <<"freed">>] ELSE pl>>

\* the scenario of the specification: gets of A, B, A, C, one after the
\* other, on an empty set
Scenario == <<1, 2, 1, 3>>
\* the get of a belongs to the scenario when it is its next step and no
\* other get is in flight
S5Call(a) ==
  IF s5 >= 0 /\ s5 < Len(Scenario) /\ InFlight = {}
     /\ s5 + 1 <= Len(Scenario) /\ Scenario[s5 + 1] = a
  THEN s5 ELSE -1
S5Done == IF s5 >= 0 THEN s5 + 1 ELSE -1

\* the methylome set after construction with capacity n
methylome_set(n) ==
  /\ max_live_methylomes = n
  /\ entry = [a \in Accessions |-> Absent]
  /\ lru = <<>>
  /\ tstate = [t \in Threads |-> "idle"]
  /\ tacc = [t \in Threads |-> 0]
  /\ thandle = [t \in Threads |-> 0]
  /\ refcount = [o \in Objects |-> 0]
  /\ payload = [o \in Objects |-> <<"none">>]
  /\ n_loads = 0
  /\ s5 = 0
  /\ get_order = <<>>
  /\ load_calls = [a \in Accessions |-> {}]

CacheInit == \E n \in 1 .. MaxResident : methylome_set(n)

\* get(a), hit: the entry is resident; the caller gets a handle and the
\* accession becomes the most recently used
GetHit(t, a) ==
  /\ UNCHANGED <<nonCacheVars, max_live_methylomes>>
  /\ tstate[t] = "idle"
  /\ entry[a].state = "ready"
  /\ lru' = Touch(lru, a)
  /\ tstate' = [tstate EXCEPT ![t] = "holding"]
  /\ tacc' = [tacc EXCEPT ![t] = a]
  /\ thandle' = [thandle EXCEPT ![t] = entry[a].obj]
  /\ refcount' = [refcount EXCEPT ![entry[a].obj] = @ + 1]
  /\ get_order' = NoteGet(get_order, a)
  /\ s5' = (IF S5Call(a) >= 0 THEN S5Call(a) + 1 ELSE -1)
  /\ UNCHANGED <<entry, payload, n_loads, load_calls>>

\* get(a) while a load of a is pending: the caller waits for that load
GetJoin(t, a) ==
  /\ UNCHANGED <<nonCacheVars, max_live_methylomes>>
  /\ tstate[t] = "idle"
  /\ entry[a].state = "loading"
  /\ ~StartsLoad(entry[a])
  /\ tstate' = [tstate EXCEPT ![t] = "waiting"]
  /\ tacc' = [tacc EXCEPT ![t] = a]
  /\ s5' = -1
  /\ UNCHANGED <<entry, lru, thandle, refcount, payload, n_loads, get_order,
                 load_calls>>

\* get(a), miss: at capacity the least recently used resident entry is
\* evicted; the pending entry is inserted and the caller goes to load
GetMiss(t, a) ==
  /\ UNCHANGED <<nonCacheVars, max_live_methylomes>>
  /\ tstate[t] = "idle"
  /\ entry[a].state # "ready"
  /\ StartsLoad(entry[a])
  /\ n_loads < MaxLoads
  /\ AtCapacity(Cardinality(InMap)) => lru # <<>>
  /\ n_loads' = n_loads + 1
  /\ tstate' = [tstate EXCEPT ![t] = "loading"]
  /\ tacc' = [tacc EXCEPT ![t] = a]
  /\ load_calls' = [load_calls EXCEPT ![a] = @ \cup {n_loads + 1}]
  /\ s5' = S5Call(a)
  /\ IF AtCapacity(Cardinality(InMap))
     THEN LET v == Victim(lru)
              d == DropOwner(refcount, payload, entry[v].obj)
          IN /\ entry' = [entry EXCEPT ![v] = Absent,
                            ![a] = [state |-> "loading", obj |-> n_loads + 1]]
             /\ lru' = Without(lru, v)
             /\ refcount' = d[1]
             /\ payload' = d[2]
     ELSE /\ entry' = [entry EXCEPT
                         ![a] = [state |-> "loading", obj |-> n_loads + 1]]
          /\ UNCHANGED <<lru, refcount, payload>>
  /\ UNCHANGED <<thandle, get_order>>

\* get(a), miss, and nothing can be evicted (every entry is pending): the
\* caller is not admitted and gets SERVER_BUSY
GetBusy(t, a) ==
  /\ UNCHANGED <<nonCacheVars, max_live_methylomes>>
  /\ tstate[t] = "idle"
  /\ entry[a].state = "absent"
  /\ AtCapacity(Cardinality(InMap))
  /\ lru = <<>>
  /\ tstate' = [tstate EXCEPT ![t] = "busy"]
  /\ tacc' = [tacc EXCEPT ![t] = a]
  /\ s5' = -1
  /\ UNCHANGED <<entry, lru, thandle, refcount, payload, n_loads, get_order,
                 load_calls>>

\* the threads a completed load of a answers: its loader and its waiters
Answered(t, a) == {t} \cup Waiters(a)

\* the load of thread t succeeds: the entry becomes resident and most
\* recently used; the loader and every waiter get a handle to the payload
LoadSucceed(t) ==
  /\ UNCHANGED <<nonCacheVars, max_live_methylomes>>
  /\ tstate[t] = "loading"
  /\ LET a == tacc[t]
         o == entry[a].obj
         who == Answered(t, a)
     IN /\ entry' = [entry EXCEPT ![a] = [state |-> "ready", obj |-> o]]
        /\ lru' = Touch(lru, a)
        /\ payload' = [payload EXCEPT ![o] = <<"data", a>>]
        /\ refcount' = [refcount EXCEPT ![o] = 1 + Cardinality(who)]
        /\ tstate' = [x \in Threads |->
                        IF x \in who THEN "holding" ELSE tstate[x]]
        /\ thandle' = [x \in Threads |-> IF x \in who THEN o ELSE thandle[x]]
        /\ get_order' = NoteGet(get_order, a)
        /\ load_calls' = [load_calls EXCEPT ![a] = @ \ {o}]
        /\ s5' = S5Done
  /\ UNCHANGED <<tacc, n_loads>>

\* a variant of AfterFailedLoad that leaves the pending entry in the map
AfterFailedLoadKept(e) == e

\* what a failed load leaves of the pending entry: nothing
AfterFailedLoad(e) == Absent

\* the load of thread t fails: the pending entry is removed; the loader and
\* every waiter get the error
LoadFail(t) ==
  /\ UNCHANGED <<nonCacheVars, max_live_methylomes>>
  /\ tstate[t] = "loading"
  /\ LET a == tacc[t]
         who == Answered(t, a)
     IN /\ entry' = [entry EXCEPT ![a] = AfterFailedLoad(entry[a])]
        /\ tstate' = [x \in Threads |->
                        IF x \in who THEN "failed" ELSE tstate[x]]
        /\ load_calls' = [load_calls EXCEPT ![a] = @ \ {entry[a].obj}]
  /\ s5' = -1
  /\ UNCHANGED <<lru, tacc, thandle, refcount, payload, n_loads, get_order>>

\* the request handler is done with the methylome: its handle is released
Release(t) ==
  /\ UNCHANGED <<nonCacheVars, max_live_methylomes>>
  /\ tstate[t] = "holding"
  /\ LET d == DropOwner(refcount, payload, thandle[t])
     IN /\ refcount' = d[1]
        /\ payload' = d[2]
  /\ tstate' = [tstate EXCEPT ![t] = "idle"]
  /\ tacc' = [tacc EXCEPT ![t] = 0]
  /\ thandle' = [thandle EXCEPT ![t] = 0]
  /\ UNCHANGED <<entry, lru, n_loads, s5, get_order, load_calls>>

\* the request handler answers its client with the error it got
ReturnError(t) ==
  /\ UNCHANGED <<nonCacheVars, max_live_methylomes>>
  /\ tstate[t] \in {"failed", "busy"}
  /\ tstate' = [tstate EXCEPT ![t] = "idle"]
  /\ tacc' = [tacc EXCEPT ![t] = 0]
  /\ UNCHANGED <<entry, lru, thandle, refcount, payload, n_loads, s5,
                 get_order, load_calls>>

CacheNext ==
  \/ \E t \in Threads, a \in Accessions : GetHit(t, a)
  \/ \E t \in Threads, a \in Accessions : GetJoin(t, a)
  \/ \E t \in Threads, a \in Accessions : GetMiss(t, a)
  \/ \E t \in Threads, a \in Accessions : GetBusy(t, a)
  \/ \E t \in Threads : LoadSucceed(t)
  \/ \E t \in Threads : LoadFail(t)
  \/ \E t \in Threads : Release(t)
  \/ \E t \in Threads : ReturnError(t)

(***************************************************************************)
(* Specifications.                                                         *)
(***************************************************************************)
(***************************************************************************)
(* The request and its text form: src/src/request.hpp, request.cpp.  A     *)
(* character is a string; the buffer is a sequence of buf_size characters. *)
(***************************************************************************)
\* request::buf_size
buf_size == 256

\* the largest std::uint32_t, at the width of the model
UintMax == 2 ^ UintBits - 1

\* request.cpp:51-52
delim == "\t"
term == "\n"
\* the byte 0 that to_buffer fills the buffer with
NUL == "NUL"

Digits == <<"0", "1", "2", "3", "4", "5", "6", "7", "8", "9">>
IsDigit(c) == \E i \in 1 .. 10 : Digits[i] = c
DigitVal(c) == (CHOOSE i \in 1 .. 10 : Digits[i] = c) - 1

RECURSIVE Dec(_)
\* std::format("{}", n) of an unsigned integer: its decimal digits
Dec(n) ==
  IF n < 10 THEN <<Digits[n + 1]>>
  ELSE Append(Dec(n \div 10), Digits[(n % 10) + 1])

\* n bytes 0
Zeros(n) == [k \in 1 .. n |-> NUL]

\* a variant of format_request that leaves the terminator out
format_request_unterminated(r) ==
  r.accession \o <<delim>> \o Dec(r.methylome_size) \o <<delim>>
    \o Dec(r.n_intervals)

\* request.cpp:42-43: format("{}\t{}\t{}\n", accession, methylome_size,
\* n_intervals)
format_request(r) ==
  r.accession \o <<delim>> \o Dec(r.methylome_size) \o <<delim>>
    \o Dec(r.n_intervals) \o <<term>>

\* request::to_buffer: the buffer filled with 0, the text copied to its
\* start (a text of at most buf_size characters)
to_buffer(r) ==
  LET s == format_request(r) IN s \o Zeros(buf_size - Len(s))

\* rg::find from index i on: the index of the first c, buf_size + 1
\* (data_end) when there is none
find(b, i, c) ==
  LET hits == {j \in i .. buf_size : b[j] = c} IN
  IF hits = {} THEN buf_size + 1
  ELSE CHOOSE j \in hits : \A k \in hits : j <= k

RECURSIVE DigitRun(_, _)
\* the number of digits of b from index i on, up to data_end
DigitRun(b, i) ==
  IF i > buf_size THEN 0
  ELSE IF IsDigit(b[i]) THEN 1 + DigitRun(b, i + 1)
  ELSE 0

RECURSIVE DigitsValue(_, _, _, _)
\* the value of the k digits of b from index i on, added to acc; any value
\* above UintMax is kept as UintMax + 1
DigitsValue(b, i, k, acc) ==
  IF k = 0 THEN acc
  ELSE LET v == acc * 10 + DigitVal(b[i]) IN
       DigitsValue(b, i + 1, k - 1, IF v > UintMax THEN UintMax + 1 ELSE v)

\* std::from_chars(first, data_end, value) for std::uint32_t: the longest
\* run of digits is consumed; no digit is invalid_argument, a value that
\* does not fit is result_out_of_range, and value is then left as it was
from_chars(b, first) ==
  LET k == DigitRun(b, first)
      v == DigitsValue(b, first, k, 0)
  IN IF k = 0 THEN [ec |-> "invalid_argument", ptr |-> first, value |-> 0]
     ELSE IF v > UintMax
     THEN [ec |-> "result_out_of_range", ptr |-> first + k, value |-> 0]
     ELSE [ec |-> "ok", ptr |-> first + k, value |-> v]

\* the status codes request::from_buffer returns
RequestStatuses ==
  {"ok", "malformed_accession", "malformed_methylome_size",
   "malformed_n_intervals"}

\* what from_buffer leaves: its status, the fields of the request, and
\* whether it read the buffer past its end
Parsed(st, acc, ms, n, oob) ==
  [status |-> st, accession |-> acc, methylome_size |-> ms,
   n_intervals |-> n, oob |-> oob]

\* *cursor with cursor = data_end reads past the buffer: the behaviour is
\* undefined, any status may come out
PastTheEnd(acc, ms, n) ==
  {Parsed(st, acc, ms, n, TRUE) : st \in RequestStatuses}

\* request::from_buffer: the outcomes of parsing the buffer b
from_buffer(b) ==
  LET cursor == find(b, 1, delim) IN
  IF cursor > buf_size
  THEN {Parsed("malformed_accession", <<>>, 0, 0, FALSE)}
  ELSE
    LET acc == SubSeq(b, 1, cursor - 1)
        ms == from_chars(b, cursor + 1)
    IN
    IF ms.ec # "ok"
    THEN {Parsed("malformed_methylome_size", acc, 0, 0, FALSE)}
    ELSE IF ms.ptr > buf_size THEN PastTheEnd(acc, ms.value, 0)
    ELSE IF b[ms.ptr] # delim
    THEN {Parsed("malformed_n_intervals", acc, ms.value, 0, FALSE)}
    ELSE
      LET n == from_chars(b, ms.ptr + 1) IN
      IF n.ec # "ok"
      THEN {Parsed("malformed_n_intervals", acc, ms.value, 0, FALSE)}
      ELSE IF n.ptr > buf_size THEN PastTheEnd(acc, ms.value, n.value)
      ELSE IF b[n.ptr] # term
      THEN {Parsed("malformed_n_intervals", acc, ms.value, n.value, FALSE)}
      ELSE {Parsed("ok", acc, ms.value, n.value, FALSE)}

\* a default-constructed request
EmptyRequest == [accession |-> <<>>, methylome_size |-> 0, n_intervals |-> 0]

\* the sequences over S of length at most n
SeqsUpTo(S, n) == UNION {[1 .. k -> S] : k \in 0 .. n}

\* the characters of an accession: alphanumerics and '_'
IsAccessionChar(c) == IsDigit(c) \/ c = "a" \/ c = "_"
\* the accessions of the model
Accessions_txt == SeqsUpTo({"a", "7", "_"}, MaxAccLen)
\* the 32-bit values of the model: small ones, one and two digits, the largest
UintSamples == {0, 1, 9, 10, UintMax}

\* the valid requests of the model
ValidRequests ==
  [accession : Accessions_txt, methylome_size : UintSamples,
   n_intervals : UintSamples]

\* the characters of the bytes a peer may send in place of a request
GarbageChars == {"a", "-", delim, term, "1", NUL}
\* the buffers received: MaxGarbage arbitrary bytes, then zeros
ReceivedBufs ==
  {w \o Zeros(buf_size - MaxGarbage) : w \in [1 .. MaxGarbage -> GarbageChars]}

\* no request is being encoded or decoded
CodecIdle ==
  /\ request = EmptyRequest
  /\ buf = Zeros(buf_size)
  /\ rq_pc = "idle"
  /\ rq_status = "none"
  /\ rq_in = EmptyRequest

\* a client has composed a valid request
CodecInit ==
  \E r \in ValidRequests :
    /\ request = r
    /\ rq_in = r
    /\ buf = Zeros(buf_size)
    /\ rq_pc = "composed"
    /\ rq_status = "none"

\* a server has received buf_size bytes
DecodeInit ==
  \E b \in ReceivedBufs :
    /\ request = EmptyRequest
    /\ rq_in = EmptyRequest
    /\ buf = b
    /\ rq_pc = "received"
    /\ rq_status = "none"

\* the characters of the last bytes of a full buffer
TailChars == {"a", delim, term, "1"}
\* the buffers received that are full: an accession that goes on to the
\* last MaxTail bytes, which are arbitrary
FullBufs ==
  {[k \in 1 .. buf_size - MaxTail |-> "a"] \o w :
     w \in [1 .. MaxTail -> TailChars]}

\* a server has received buf_size bytes, none of them a padding zero
DecodeFullInit ==
  \E b \in FullBufs :
    /\ request = EmptyRequest
    /\ rq_in = EmptyRequest
    /\ buf = b
    /\ rq_pc = "received"
    /\ rq_status = "none"

\* request::to_buffer
ToBuffer ==
  /\ UNCHANGED nonCodecVars
  /\ rq_pc = "composed"
  /\ Len(format_request(request)) <= buf_size
  /\ buf' = to_buffer(request)
  /\ rq_pc' = "encoded"
  /\ UNCHANGED <<request, rq_status, rq_in>>

\* request::from_buffer, on the buffer to_buffer wrote or on bytes received
FromBuffer ==
  /\ UNCHANGED nonCodecVars
  /\ rq_pc \in {"encoded", "received"}
  /\ \E r \in from_buffer(buf) :
       /\ request' = [accession |-> r.accession,
                      methylome_size |-> r.methylome_size,
                      n_intervals |-> r.n_intervals]
       /\ rq_status' = r.status
  /\ rq_pc' = (IF rq_pc = "encoded" THEN "decoded" ELSE "parsed")
  /\ UNCHANGED <<buf, rq_in>>

CodecNext ==
  \/ ToBuffer
  \/ FromBuffer

(***************************************************************************)
(* The CpG index and the methylome.  The data members are those of         *)
(* struct cpg_index (src/src/config_file_utils.hpp:144-149); its member    *)
(* functions and the methylome follow sections 3, 4.1 and 4.2 of the       *)
(* specification.  Chromosomes are numbered from 1, positions and offsets  *)
(* from 0.                                                                 *)
(***************************************************************************)
\* cpg_index::chrom_order of the indexes of the model
chrom_order == <<"chr1", "chr2">>
Chroms == 1 .. Len(chrom_order)

RECURSIVE SortedSeq(_)
\* the elements of a set of numbers, ascending
SortedSeq(S) ==
  IF S = {} THEN <<>>
  ELSE LET x == CHOOSE y \in S : \A z \in S : y <= z
       IN <<x>> \o SortedSeq(S \ {x})

RECURSIVE SumLen(_, _)
\* the total length of the first k sequences of ss
SumLen(ss, k) == IF k = 0 THEN 0 ELSE SumLen(ss, k - 1) + Len(ss[k])

\* the index with the given chromosome sizes and positions: chrom_offset is
\* the running sum of the numbers of positions
MakeIndex(sizes, posns) ==
  [chrom_size |-> sizes,
   positions |-> posns,
   chrom_offset |-> [c \in 1 .. Len(posns) |-> SumLen(posns, c - 1)],
   n_cpgs_total |-> SumLen(posns, Len(posns))]

\* scenario S1: the index of the genome chr1 = ACGTCGCG, chr2 = CG
S1Index == MakeIndex(<<8, 2>>, << <<2, 4, 6>>, <<0>> >>)
\* an index with more positions, two of them adjacent
WideIndex == MakeIndex(<<5, 8>>, << <<0, 1, 4>>, <<1, 3, 6, 7>> >>)

\* the chromosomes of size up to MaxChromSize: any set of positions below
\* the size
SmallChroms ==
  UNION {{[size |-> sz, posns |-> SortedSeq(S)] : S \in SUBSET (0 .. sz - 1)} :
           sz \in 1 .. MaxChromSize}

\* the indexes of the model
SmallIndexes ==
  {MakeIndex([c \in Chroms |-> f[c].size], [c \in Chroms |-> f[c].posns]) :
     f \in [Chroms -> SmallChroms]}
Indexes == SmallIndexes \cup {S1Index, WideIndex}

\* an index that was not read
NoIndex == MakeIndex(<<>>, <<>>)

\* the largest value of a count of the methylome (16 bits in the program)
MaxCount == 2 ^ CountBits - 1

\* scenario S3: the methylome of the scenarios
S3Methylome == << <<10, 0>>, <<5, 5>>, <<0, 20>>, <<7, 3>> >>
\* the methylomes of n CpGs of the model: one whose records all differ and
\* whose first is not covered, one of the largest counts, and that of S3
Methylomes(n) ==
  {[k \in 1 .. n |-> <<k - 1, (2 * k) % 3>>],
   [k \in 1 .. n |-> <<MaxCount, MaxCount>>]}
    \cup (IF n = Len(S3Methylome) THEN {S3Methylome} ELSE {})

\* the genomic intervals on the chromosomes of an index: start <= stop <=
\* chrom_size
Intervals(idx) ==
  UNION {UNION {{[ch_id |-> c, start |-> a, stop |-> b] :
                   b \in a .. idx.chrom_size[c]} :
                  a \in 0 .. idx.chrom_size[c]} :
           c \in Chroms}

\* the lists of intervals of a query: none, one, or two in either order
Batches(idx) ==
  {<<>>} \cup {<<g>> : g \in Intervals(idx)}
    \cup {<<g, h>> : g \in Intervals(idx), h \in Intervals(idx)}

RECURSIVE lower_bound(_, _, _, _)
\* std::lower_bound over the count elements of a that follow the first
\* `first`: the number of elements before the first one not below value
lower_bound(a, first, count, value) ==
  IF count <= 0 THEN first
  ELSE LET step == count \div 2
           it == first + step
       IN IF a[it + 1] < value
          THEN lower_bound(a, it + 1, count - step - 1, value)
          ELSE lower_bound(a, first, step, value)

\* cpg_index::get_offset_within_chrom
get_offset_within_chrom(idx, ch_id, pos) ==
  lower_bound(idx.positions[ch_id], 0, Len(idx.positions[ch_id]), pos)

\* the order of intervals by (ch_id, start)
IntervalBefore(g, h) ==
  g.ch_id < h.ch_id \/ (g.ch_id = h.ch_id /\ g.start < h.start)

\* the permutation that sorts the intervals by (ch_id, start), intervals of
\* equal key staying in their order
SortOrder(intervals) ==
  LET n == Len(intervals) IN
  CHOOSE p \in [1 .. n -> 1 .. n] :
    /\ \A j, k \in 1 .. n : j # k => p[j] # p[k]
    /\ \A j, k \in 1 .. n :
         j < k => \/ IntervalBefore(intervals[p[j]], intervals[p[k]])
                  \/ /\ ~IntervalBefore(intervals[p[k]], intervals[p[j]])
                     /\ p[j] < p[k]

RECURSIVE scan_offsets(_, _, _, _)
\* the offsets of the sorted intervals from the k-th on, by one scan of each
\* chromosome: the search of a start resumes at the cursor the previous
\* interval of the chromosome left, the search of a stop at the start found
scan_offsets(idx, sorted, k, cursor) ==
  IF k > Len(sorted) THEN <<>>
  ELSE LET g == sorted[k]
           posns == idx.positions[g.ch_id]
           from == IF k > 1 /\ sorted[k - 1].ch_id = g.ch_id THEN cursor ELSE 0
           lo == lower_bound(posns, from, Len(posns) - from, g.start)
           hi == lower_bound(posns, lo, Len(posns) - lo, g.stop)
       IN << <<idx.chrom_offset[g.ch_id] + lo,
               idx.chrom_offset[g.ch_id] + hi>> >>
            \o scan_offsets(idx, sorted, k + 1, lo)

\* a variant of get_offsets that returns the pairs in sorted order
get_offsets_sorted(idx, intervals) ==
  LET p == SortOrder(intervals)
  IN scan_offsets(idx, [k \in 1 .. Len(intervals) |-> intervals[p[k]]], 1, 0)

\* cpg_index::get_offsets(gis): the global offsets of the intervals, in the
\* order of the intervals
get_offsets(idx, intervals) ==
  LET p == SortOrder(intervals)
      res == scan_offsets(idx,
               [k \in 1 .. Len(intervals) |-> intervals[p[k]]], 1, 0)
  IN [k \in 1 .. Len(intervals) |->
        res[CHOOSE j \in 1 .. Len(intervals) : p[j] = k]]

\* one more record added to the sums <<n_meth, n_unmeth, n_covered>>
AddRecord(acc, rec) ==
  <<acc[1] + rec[1], acc[2] + rec[2],
    acc[3] + (IF rec[1] + rec[2] > 0 THEN 1 ELSE 0)>>

RECURSIVE accumulate(_, _, _, _)
\* the sums over the records cpgs[k .. hi), added to acc
accumulate(cpgs, k, hi, acc) ==
  IF k >= hi THEN acc
  ELSE accumulate(cpgs, k + 1, hi, AddRecord(acc, cpgs[k + 1]))

\* a variant of get_counts that takes the record at hi too
get_counts_inclusive(cpgs, offs) ==
  [k \in 1 .. Len(offs) |->
     accumulate(cpgs, offs[k][1],
                IF offs[k][2] < Len(cpgs) THEN offs[k][2] + 1 ELSE offs[k][2],
                <<0, 0, 0>>)]

\* the aggregation kernel for intervals: one record of sums for each pair
\* of offsets, in their order
get_counts(cpgs, offs) ==
  [k \in 1 .. Len(offs) |->
     accumulate(cpgs, offs[k][1], offs[k][2], <<0, 0, 0>>)]

\* no index and no methylome are loaded
KernelIdle ==
  /\ index = NoIndex
  /\ meth = <<>>

\* no query is under way
QueryIdle ==
  /\ gis = <<>>
  /\ offsets = <<>>
  /\ counts = <<>>
  /\ q_pc = "idle"

\* a client has read an index
QueryInit ==
  /\ index \in Indexes
  /\ meth = <<>>
  /\ gis = <<>>
  /\ offsets = <<>>
  /\ counts = <<>>
  /\ q_pc = "indexed"

\* lookup_client_main: the offsets of the intervals read
GetOffsets ==
  /\ UNCHANGED nonQueryVars
  /\ q_pc = "indexed"
  /\ \E b \in Batches(index) :
       /\ gis' = b
       /\ offsets' = get_offsets(index, b)
  /\ q_pc' = "offsets"
  /\ UNCHANGED <<index, meth, counts>>

\* handle_get_counts: the server aggregates its methylome over the offsets
\* of the request
GetCounts ==
  /\ UNCHANGED nonQueryVars
  /\ q_pc = "offsets"
  /\ \E m \in Methylomes(index.n_cpgs_total) :
       /\ meth' = m
       /\ counts' = get_counts(m, offsets)
  /\ q_pc' = "counted"
  /\ UNCHANGED <<index, gis, offsets>>

QueryNext ==
  \/ GetOffsets
  \/ GetCounts

(***************************************************************************)
(* The bins command: src/src/bins.cpp.  bin_counts and the loops of        *)
(* bins_main (lines 143-157), with std::uint32_t arithmetic at the width   *)
(* of the model; write_bins of src/src/genomic_interval_output.hpp.        *)
(***************************************************************************)
\* the value of an expression of type std::uint32_t
Uint(x) == x % (2 ^ UintBits)

\* an index with a chromosome of the largest size
LongIndex == MakeIndex(<<UintMax, 2>>, << <<0, 1, UintMax - 1>>, <<0>> >>)

\* the runs of the bins command of the model: an index and a bin size
BinRuns ==
  {[index |-> idx, bin_size |-> b] :
     idx \in SmallIndexes \cup {S1Index, WideIndex}, b \in 1 .. MaxBinSize}
    \cup {[index |-> LongIndex, bin_size |-> b] : b \in {UintMax - 1, UintMax}}

RECURSIVE bin_counts(_, _, _, _, _, _, _)
\* bins.cpp:60-76, bin_counts: while the position at posn_itr is below
\* bin_end, its record (at cpg_itr) is added to the sums and both iterators
\* advance.  sums is <<n_meth, n_unmeth, n_covered>>, of type std::uint32_t;
\* sums_exact holds the same sums without any width.
bin_counts(posns, p_itr, bin_end, cpgs, c_itr, sums, sums_exact) ==
  IF p_itr # Len(posns) /\ posns[p_itr + 1] < bin_end
  THEN LET rec == cpgs[c_itr + 1]
           cov == IF rec[1] + rec[2] > 0 THEN 1 ELSE 0
       IN bin_counts(posns, p_itr + 1, bin_end, cpgs, c_itr + 1,
                     <<Uint(sums[1] + rec[1]), Uint(sums[2] + rec[2]),
                       Uint(sums[3] + cov)>>,
                     <<sums_exact[1] + rec[1], sums_exact[2] + rec[2],
                       sums_exact[3] + cov>>)
  ELSE [sums |-> sums, sums_exact |-> sums_exact, posn_itr |-> p_itr,
        cpg_itr |-> c_itr]

\* bins.cpp:154: min(i + bin_size, chrom_size), the sum of type std::uint32_t
BinEnd(i, b, size) == IF Uint(i + b) < size THEN Uint(i + b) ELSE size

RECURSIVE write_bins_walk(_, _, _, _, _)
\* genomic_interval_output.hpp:163-195, write_bins: the number of results
\* consumed by its two loops (results_itr when the loops are left)
write_bins_walk(sizes, b, c, bin_beg, results_itr) ==
  IF c > Len(sizes) THEN results_itr
  ELSE IF bin_beg < sizes[c]
  THEN write_bins_walk(sizes, b, c, Uint(bin_beg + b), results_itr + 1)
  ELSE write_bins_walk(sizes, b, c + 1, 0, results_itr)

\* the bins command is not running
BinsIdle ==
  /\ bin_size = 0
  /\ results = <<>>
  /\ results_exact = <<>>
  /\ bins = <<>>
  /\ ch = 0
  /\ bin_i = 0
  /\ posn_itr = 0
  /\ cpg_itr = 0
  /\ b_pc = "idle"

\* bins_main has read the index and the methylome (of n_cpgs_total
\* records) and is about to enter the loop over the chromosomes
BinsInit ==
  /\ \E run \in BinRuns :
       /\ index = run.index
       /\ bin_size = run.bin_size
       /\ meth \in Methylomes(run.index.n_cpgs_total)
  /\ results = <<>>
  /\ results_exact = <<>>
  /\ bins = <<>>
  /\ ch = 1
  /\ bin_i = 0
  /\ posn_itr = 0
  /\ cpg_itr = 0
  /\ b_pc = "chrom"

\* a variant of EnterChrom that starts every chromosome at the first record
\* of the methylome
EnterChromNoOffset ==
  /\ UNCHANGED nonBinsVars
  /\ b_pc = "chrom"
  /\ ch <= Len(index.chrom_size)
  /\ posn_itr' = 0
  /\ cpg_itr' = 0
  /\ bin_i' = 0
  /\ b_pc' = "bin"
  /\ UNCHANGED <<index, meth, bin_size, results, results_exact, bins, ch>>

\* bins.cpp:148-151: the next chromosome of the zipped range; the
\* iterators are set to its first position and its first record
EnterChrom ==
  /\ UNCHANGED nonBinsVars
  /\ b_pc = "chrom"
  /\ ch <= Len(index.chrom_size)
  /\ posn_itr' = 0
  /\ cpg_itr' = index.chrom_offset[ch]
  /\ bin_i' = 0
  /\ b_pc' = "bin"
  /\ UNCHANGED <<index, meth, bin_size, results, results_exact, bins, ch>>

\* bins.cpp:153-156: one turn of the loop over the bins of the chromosome
BinStep ==
  /\ UNCHANGED nonBinsVars
  /\ b_pc = "bin"
  /\ bin_i < index.chrom_size[ch]
  /\ Len(results) < MaxResults
  /\ LET bin_end == BinEnd(bin_i, bin_size, index.chrom_size[ch])
         r == bin_counts(index.positions[ch], posn_itr, bin_end, meth,
                         cpg_itr, <<0, 0, 0>>, <<0, 0, 0>>)
     IN /\ results' = Append(results, r.sums)
        /\ results_exact' = Append(results_exact, r.sums_exact)
        /\ bins' = Append(bins, [ch |-> ch, beg |-> bin_i, end |-> bin_end])
        /\ posn_itr' = r.posn_itr
        /\ cpg_itr' = r.cpg_itr
  /\ bin_i' = Uint(bin_i + bin_size)
  /\ UNCHANGED <<index, meth, bin_size, ch, b_pc>>

\* bins.cpp:153: the loop over the bins is left when i >= chrom_size
LeaveChrom ==
  /\ UNCHANGED nonBinsVars
  /\ b_pc = "bin"
  /\ ~(bin_i < index.chrom_size[ch])
  /\ ch' = ch + 1
  /\ b_pc' = "chrom"
  /\ UNCHANGED <<index, meth, bin_size, results, results_exact, bins, bin_i,
                 posn_itr, cpg_itr>>

\* bins.cpp:157-162: the loop over the chromosomes is left and the results
\* are written
BinsDone ==
  /\ UNCHANGED nonBinsVars
  /\ b_pc = "chrom"
  /\ ch > Len(index.chrom_size)
  /\ b_pc' = "done"
  /\ UNCHANGED <<index, meth, bin_size, results, results_exact, bins, ch,
                 bin_i, posn_itr, cpg_itr>>

BinsNext ==
  \/ EnterChrom
  \/ BinStep
  \/ LeaveChrom
  \/ BinsDone

(***************************************************************************)
(* Saturation of the counts of a methylome (sections 3 and 4.2 of the      *)
(* specification; the test methylome_test.basic_assertions).               *)
(***************************************************************************)
\* the larger of two numbers
Max2(x, y) == IF x >= y THEN x ELSE y

\* x * max / c rounded to the nearest integer (halves away from zero)
RoundScaled(x, c, max) == (2 * x * max + c) \div (2 * c)

\* both counts are cut off at max, each on its own
clamp_to_fit(a, b, max) ==
  <<IF a > max THEN max ELSE a, IF b > max THEN max ELSE b>>

\* round_to_fit: the larger count becomes max and the other one its
\* fraction of the larger, times max, rounded
round_to_fit(a, b, max) ==
  LET c == Max2(a, b)
  IN <<IF a = c THEN max ELSE RoundScaled(a, c, max),
       IF b = c THEN max ELSE RoundScaled(b, c, max)>>

\* conditional_round_to_fit: the counts are scaled only if one of them
\* exceeds max
conditional_round_to_fit(a, b, max) ==
  IF Max2(a, b) > max THEN round_to_fit(a, b, max) ELSE <<a, b>>

\* no pair of counts is being rounded
RoundIdle ==
  /\ n_meth = 0
  /\ n_unmeth = 0
  /\ counts_in = <<0, 0>>
  /\ r_pc = "idle"

\* a pair of 32-bit counts read from external input
RoundInit ==
  /\ n_meth \in 0 .. UintMax
  /\ n_unmeth \in 0 .. UintMax
  /\ counts_in = <<n_meth, n_unmeth>>
  /\ r_pc = "read"

\* conditional_round_to_fit<methylome::m_count_t>(n_meth, n_unmeth)
ConditionalRoundToFit ==
  /\ UNCHANGED nonRoundVars
  /\ r_pc = "read"
  /\ LET r == conditional_round_to_fit(n_meth, n_unmeth, MaxCount)
     IN /\ n_meth' = r[1]
        /\ n_unmeth' = r[2]
  /\ r_pc' = "rounded"
  /\ UNCHANGED counts_in

(***************************************************************************)
(* The commands: command_server_main (src/src/command_server.cpp) and      *)
(* command_index_main (src/src/lookup_server.cpp, second file).  Every     *)
(* action is one step of main between two places where it can return.  The *)
(* command line is drawn by Init; what the file system and the network     *)
(* answer is drawn by the step that asks, and kept in cmd_in.              *)
(***************************************************************************)
\* the outcomes of argset_base::parse / of the try block of the index command
ParseOutcomes == {"ok", "help_requested", "error"}

\* the outcome of one file of the index directory
\*   "ok"               index and metadata are read
\*   "index_unreadable" cpg_index::read returns an error
\*   "meta_unreadable"  cpg_index_meta::read returns an error
\*   "other"            the name is not that of a CpG index
DirEntries == {"ok", "index_unreadable", "meta_unreadable", "other"}

\* the index directories of the model
IndexDirs == SeqsUpTo(DirEntries, MaxIndexFiles)

RECURSIVE cpg_index_set(_, _, _)
\* part_000:78-121, cpg_index_set::cpg_index_set: the files of the directory
\* are read in turn (from entry k on, n indexes read so far); at the first
\* index or metadata that cannot be read both maps are cleared and the
\* constructor returns.  The result is the number of indexes of the set and
\* whether a read failed.
cpg_index_set(dir, k, n) ==
  IF k > Len(dir) THEN [n_indexes |-> n, read_failed |-> FALSE]
  ELSE IF dir[k] \in {"index_unreadable", "meta_unreadable"}
  THEN [n_indexes |-> 0, read_failed |-> TRUE]
  ELSE cpg_index_set(dir, k + 1, IF dir[k] = "ok" THEN n + 1 ELSE n)

\* what std::ofstream and std::print can answer in write_config_file:
\*   "ok"          the file holds the configuration
\*   "open_fails"  the stream is bad after construction
\*   "print_fails" the stream is bad after std::print
\*   "close_fails" the text fits the stream's buffer, the stream is good
\*                 after std::print, and writing the buffer fails when the
\*                 stream is closed by its destructor
WriteOutcomes == {"ok", "open_fails", "print_fails", "close_fails"}

\* config_file_utils.hpp:51-69, write_config_file: the error code it
\* returns (TRUE: an error), the failures being read from the stream's state
write_config_file(outcome) == outcome \in {"open_fails", "print_fails"}

\* the inputs of a command that were not drawn yet
NoInputs ==
  [parse |-> "none", config_out |-> "", daemonize |-> FALSE,
   write |-> "none", logger_ok |-> TRUE, canonical |-> "none",
   index_dir |-> <<>>, server_ec |-> FALSE, index_file |-> <<>>,
   construct |-> "none", index_write |-> "none", meta_write |-> "none"]

\* no command is running
CmdIdle ==
  /\ cmd = "none"
  /\ cmd_pc = "idle"
  /\ cmd_in = NoInputs
  /\ effects = <<>>
  /\ exit_code = "none"

\* main returns code
Return(code) ==
  /\ cmd_pc' = "exited"
  /\ exit_code' = code

\* the server command is started with some command line
ServerCmdInit ==
  /\ cmd = "server"
  /\ cmd_pc = "start"
  /\ \E p \in ParseOutcomes, c \in {"", "config.toml"}, d \in BOOLEAN :
       cmd_in = [NoInputs EXCEPT !.parse = p, !.config_out = c,
                                 !.daemonize = d]
  /\ effects = <<>>
  /\ exit_code = "none"

\* command_server.cpp:194-199: args.parse
ServerParse ==
  /\ UNCHANGED nonCmdVars
  /\ cmd = "server" /\ cmd_pc = "start"
  /\ IF cmd_in.parse = "help_requested" THEN Return("EXIT_SUCCESS")
     ELSE IF cmd_in.parse = "error" THEN Return("EXIT_FAILURE")
     ELSE cmd_pc' = "parsed" /\ UNCHANGED exit_code
  /\ UNCHANGED <<cmd, cmd_in, effects>>

\* command_server.cpp:201-202: --make-config was given
ServerMakeConfig ==
  /\ UNCHANGED nonCmdVars
  /\ cmd = "server" /\ cmd_pc = "parsed"
  /\ cmd_in.config_out # ""
  /\ \E w \in WriteOutcomes :
       /\ cmd_in' = [cmd_in EXCEPT !.write = w]
       /\ effects' =
            IF w = "open_fails" THEN effects
            ELSE Append(effects, IF w = "ok" THEN "config_written"
                                 ELSE "config_incomplete")
       /\ Return(IF write_config_file(w) THEN "EXIT_FAILURE"
                 ELSE "EXIT_SUCCESS")
  /\ UNCHANGED cmd

\* command_server.cpp:204-215: the log file and the logger
ServerInitLogging ==
  /\ UNCHANGED nonCmdVars
  /\ cmd = "server" /\ cmd_pc = "parsed"
  /\ cmd_in.config_out = ""
  /\ \E ok \in BOOLEAN :
       /\ cmd_in' = [cmd_in EXCEPT !.logger_ok = ok]
       /\ IF ok
          THEN /\ cmd_pc' = "logging"
               /\ effects' = Append(effects, "logging")
               /\ UNCHANGED exit_code
          ELSE Return("EXIT_FAILURE") /\ UNCHANGED effects
  /\ UNCHANGED cmd

\* command_server.cpp:217-221: std::filesystem::canonical(methylome_dir)
ServerCanonicalDir ==
  /\ UNCHANGED nonCmdVars
  /\ cmd = "server" /\ cmd_pc = "logging"
  /\ \E c \in {"ok", "ec", "empty"} :
       /\ cmd_in' = [cmd_in EXCEPT !.canonical = c]
       /\ IF c = "ok" THEN cmd_pc' = "canonical" /\ UNCHANGED exit_code
          ELSE Return("EXIT_FAILURE")
  /\ UNCHANGED <<cmd, effects>>

\* the error code the constructor of server leaves in ec: set when the
\* index set could not be read, or for another reason (address, daemon)
server_ctor(set, other) == set.read_failed \/ other

\* command_server.cpp:223-230: the server is constructed in daemonized mode
\* and ec is looked at
ServerConstructDaemon ==
  /\ UNCHANGED nonCmdVars
  /\ cmd = "server" /\ cmd_pc = "canonical"
  /\ cmd_in.daemonize
  /\ \E dir \in IndexDirs, other \in BOOLEAN :
       LET ec == server_ctor(cpg_index_set(dir, 1, 0), other)
       IN /\ cmd_in' = [cmd_in EXCEPT !.index_dir = dir, !.server_ec = ec]
          /\ effects' = Append(effects, "server")
          /\ IF ec THEN Return("EXIT_FAILURE")
             ELSE cmd_pc' = "constructed" /\ UNCHANGED exit_code
  /\ UNCHANGED cmd

\* command_server.cpp:233-236: the server is constructed in the other mode
ServerConstruct ==
  /\ UNCHANGED nonCmdVars
  /\ cmd = "server" /\ cmd_pc = "canonical"
  /\ ~cmd_in.daemonize
  /\ \E dir \in IndexDirs, other \in BOOLEAN :
       LET ec == server_ctor(cpg_index_set(dir, 1, 0), other)
       IN /\ cmd_in' = [cmd_in EXCEPT !.index_dir = dir, !.server_ec = ec]
          /\ effects' = Append(effects, "server")
          /\ cmd_pc' = "constructed"
  /\ UNCHANGED <<cmd, exit_code>>

\* command_server.cpp:231, 237: s.run() is called
ServerRun ==
  /\ UNCHANGED nonCmdVars
  /\ cmd = "server" /\ cmd_pc = "constructed"
  /\ effects' = Append(effects, "run")
  /\ cmd_pc' = "running"
  /\ UNCHANGED <<cmd, cmd_in, exit_code>>

\* command_server.cpp:240: s.run() has returned
ServerStops ==
  /\ UNCHANGED nonCmdVars
  /\ cmd = "server" /\ cmd_pc = "running"
  /\ Return("EXIT_SUCCESS")
  /\ UNCHANGED <<cmd, cmd_in, effects>>

ServerCmdNext ==
  \/ ServerParse
  \/ ServerMakeConfig
  \/ ServerInitLogging
  \/ ServerCanonicalDir
  \/ ServerConstructDaemon
  \/ ServerConstruct
  \/ ServerRun
  \/ ServerStops

\* the pieces of text the file names of the model are made of
PathTokens == {"hg38", ".", "/", "cpg_idx", "fa"}

\* the file names given with -x
IndexFiles == SeqsUpTo(PathTokens, MaxPathLen)

\* cpg_index::filename_extension
filename_extension == <<".", "cpg_idx">>

\* std::filesystem::path::filename: what follows the last directory
\* separator
filename(path) ==
  LET seps == {k \in 1 .. Len(path) : path[k] = "/"}
      last == IF seps = {} THEN 0
              ELSE CHOOSE k \in seps : \A j \in seps : j <= k
  IN SubSeq(path, last + 1, Len(path))

\* the whole file name is taken as the extension
extension_whole(path) == filename(path)

\* std::filesystem::path::extension: the file name from its last period on
\* when it has one that is not its first character, and the name is neither
\* "." nor ".."; empty otherwise
extension(path) ==
  LET name == filename(path)
      dots == {k \in 2 .. Len(name) : name[k] = "."}
  IN IF dots = {} \/ name = <<".", ".">> THEN <<>>
     ELSE LET last == CHOOSE k \in dots : \A j \in dots : j <= k
          IN SubSeq(name, last, Len(name))

\* the index command is started with some command line
IndexCmdInit ==
  /\ cmd = "index"
  /\ cmd_pc = "start"
  /\ \E p \in ParseOutcomes, f \in IndexFiles :
       cmd_in = [NoInputs EXCEPT !.parse = p, !.index_file = f]
  /\ effects = <<>>
  /\ exit_code = "none"

\* lookup_server.cpp:222-239: the command line is parsed
IndexParse ==
  /\ UNCHANGED nonCmdVars
  /\ cmd = "index" /\ cmd_pc = "start"
  /\ IF cmd_in.parse = "help_requested" THEN Return("EXIT_SUCCESS")
     ELSE IF cmd_in.parse = "error" THEN Return("EXIT_FAILURE")
     ELSE cmd_pc' = "parsed" /\ UNCHANGED exit_code
  /\ UNCHANGED <<cmd, cmd_in, effects>>

\* lookup_server.cpp:241-245: the logger
IndexInitLogging ==
  /\ UNCHANGED nonCmdVars
  /\ cmd = "index" /\ cmd_pc = "parsed"
  /\ \E ok \in BOOLEAN :
       /\ cmd_in' = [cmd_in EXCEPT !.logger_ok = ok]
       /\ IF ok
          THEN /\ cmd_pc' = "logging"
               /\ effects' = Append(effects, "logging")
               /\ UNCHANGED exit_code
          ELSE Return("EXIT_FAILURE") /\ UNCHANGED effects
  /\ UNCHANGED cmd

\* lookup_server.cpp:247-252: the extension of the output file
IndexCheckExtension ==
  /\ UNCHANGED nonCmdVars
  /\ cmd = "index" /\ cmd_pc = "logging"
  /\ IF extension(cmd_in.index_file) # filename_extension
     THEN Return("EXIT_FAILURE")
     ELSE cmd_pc' = "checked" /\ UNCHANGED exit_code
  /\ UNCHANGED <<cmd, cmd_in, effects>>

\* lookup_server.cpp:254-276: initialize_cpg_index reads the genome
IndexConstruct ==
  /\ UNCHANGED nonCmdVars
  /\ cmd = "index" /\ cmd_pc = "checked"
  /\ \E err \in {"ok", "no_such_file_or_directory", "other"} :
       /\ cmd_in' = [cmd_in EXCEPT !.construct = err]
       /\ IF err = "ok" THEN cmd_pc' = "constructed" /\ UNCHANGED exit_code
          ELSE Return("EXIT_FAILURE")
  /\ effects' = Append(effects, "read_genome")
  /\ UNCHANGED cmd

\* a variant of IndexWrite that goes on to the metadata whatever index.write
\* answers
IndexWriteUnchecked ==
  /\ UNCHANGED nonCmdVars
  /\ cmd = "index" /\ cmd_pc = "constructed"
  /\ \E err \in {"ok", "error"} :
       /\ cmd_in' = [cmd_in EXCEPT !.index_write = err]
       /\ cmd_pc' = "written" /\ UNCHANGED exit_code
  /\ effects' = Append(effects, "write_index")
  /\ UNCHANGED cmd

\* lookup_server.cpp:278-281: index.write
IndexWrite ==
  /\ UNCHANGED nonCmdVars
  /\ cmd = "index" /\ cmd_pc = "constructed"
  /\ \E err \in {"ok", "error"} :
       /\ cmd_in' = [cmd_in EXCEPT !.index_write = err]
       /\ IF err = "ok" THEN cmd_pc' = "written" /\ UNCHANGED exit_code
          ELSE Return("EXIT_FAILURE")
  /\ effects' = Append(effects, "write_index")
  /\ UNCHANGED cmd

\* lookup_server.cpp:283-288: cim.write
IndexWriteMeta ==
  /\ UNCHANGED nonCmdVars
  /\ cmd = "index" /\ cmd_pc = "written"
  /\ \E err \in {"ok", "error"} :
       /\ cmd_in' = [cmd_in EXCEPT !.meta_write = err]
       /\ Return(IF err = "ok" THEN "EXIT_SUCCESS" ELSE "EXIT_FAILURE")
  /\ effects' = Append(effects, "write_meta")
  /\ UNCHANGED cmd

IndexCmdNext ==
  \/ IndexParse
  \/ IndexInitLogging
  \/ IndexCheckExtension
  \/ IndexConstruct
  \/ IndexWrite
  \/ IndexWriteMeta

(***************************************************************************)
(* The client: struct mc16_client and lookup_client_main from the          *)
(* construction of the client on (src/unnamed/part_003).  Every handler is *)
(* one action; the handlers that are ready run in the order in which they  *)
(* became ready (ready), as io_context.run() on one thread runs them.  The *)
(* network and the clock are the environment: OpCompletes, OpAborted and   *)
(* DeadlinePasses.                                                         *)
(***************************************************************************)
\* the handler of each asynchronous operation of the client
HandlerOf ==
  [resolve |-> "handle_resolve", connect |-> "handle_connect",
   write |-> "handle_write_request",
   read_header |-> "handle_read_response_header",
   read_counts |-> "do_finish"]

\* the asynchronous operations of the client on the network
ClientOps == DOMAIN HandlerOf

\* the operations on the socket: they are cancelled when it is closed
SocketOps == ClientOps \ {"resolve"}

\* deadline.async_wait(check_deadline): a wait is pending from now on
AsyncWait == "pending"

\* the wait is not started again
NoWait == "none"

\* no client is running
ClientIdle ==
  /\ c_op = "none"
  /\ c_aborted = FALSE
  /\ c_socket = "unopened"
  /\ c_shutdown = FALSE
  /\ deadline = [expiry |-> "max", passed |-> FALSE, wait |-> "none"]
  /\ ready = <<>>
  /\ c_status = "ok"
  /\ c_hdr = "none"
  /\ c_hist = [failed |-> FALSE, expired_in |-> "none", finished |-> FALSE]
  /\ main_pc = "idle"
  /\ c_exit = "none"
  /\ c_out = FALSE

\* part_003:71-83 and 322-325: the client is constructed (async_resolve,
\* expires_after, async_wait) and lookup_client_main calls io_context.run()
ClientInit ==
  /\ c_op = "resolve"
  /\ c_aborted = FALSE
  /\ c_socket = "unopened"
  /\ c_shutdown = FALSE
  /\ deadline = [expiry |-> "finite", passed |-> FALSE, wait |-> AsyncWait]
  /\ ready = <<>>
  /\ c_status = "ok"
  /\ c_hdr = "none"
  /\ c_hist = [failed |-> FALSE, expired_in |-> "none", finished |-> FALSE]
  /\ main_pc = "run"
  /\ c_exit = "none"
  /\ c_out = FALSE

\* deadline.expires_after / expires_at on the timer d: the expiry is set and
\* a pending wait is cancelled
Expires(d, e) ==
  [expiry |-> e, passed |-> FALSE,
   wait |-> IF d.wait = "pending" THEN "queued" ELSE d.wait]

\* the handlers that are ready once the call of expires_after / expires_at
\* on the timer d has returned: the handler of a cancelled wait is ready
AfterExpires(d, q) ==
  IF d.wait = "pending" THEN Append(q, [h |-> "check_deadline", err |-> FALSE])
  ELSE q

\* an operation on the network completes by itself, with or without an
\* error; the counts cannot be read when the server has answered with an
\* error header, which no counts follow
OpCompletes ==
  /\ UNCHANGED nonClientVars
  /\ c_op \in ClientOps
  /\ ~c_aborted
  /\ \E err \in (IF c_op = "read_counts" /\ c_hdr = "error" THEN {TRUE}
                 ELSE BOOLEAN) :
       /\ ready' = Append(ready, [h |-> HandlerOf[c_op], err |-> err])
       /\ c_hist' = [c_hist EXCEPT !.failed = @ \/ err]
  /\ c_op' = "none"
  /\ UNCHANGED <<c_aborted, c_socket, c_shutdown, deadline, c_status, c_hdr,
                 main_pc, c_exit, c_out>>

\* an operation on a socket that was closed completes with operation_aborted
OpAborted ==
  /\ UNCHANGED nonClientVars
  /\ c_op \in ClientOps
  /\ c_aborted
  /\ ready' = Append(ready, [h |-> HandlerOf[c_op], err |-> TRUE])
  /\ c_hist' = [c_hist EXCEPT !.failed = TRUE]
  /\ c_op' = "none"
  /\ c_aborted' = FALSE
  /\ UNCHANGED <<c_socket, c_shutdown, deadline, c_status, c_hdr, main_pc,
                 c_exit, c_out>>

\* the clock reaches the expiry of the timer; a pending wait completes
DeadlinePasses ==
  /\ UNCHANGED nonClientVars
  /\ main_pc = "run"
  /\ deadline.expiry = "finite"
  /\ ~deadline.passed
  /\ deadline' = [deadline EXCEPT !.passed = TRUE,
                                  !.wait = IF @ = "pending" THEN "queued"
                                           ELSE @]
  /\ ready' = AfterExpires(deadline, ready)
  /\ c_hist' = [c_hist EXCEPT !.expired_in =
                  IF @ = "none" /\ c_op \in ClientOps THEN c_op ELSE @]
  /\ UNCHANGED <<c_op, c_aborted, c_socket, c_shutdown, c_status, c_hdr,
                 main_pc, c_exit, c_out>>

\* the handler h is the next one that io_context.run() runs
Runs(h) == ready # <<>> /\ Head(ready).h = h

\* part_003:85-99, handle_resolve
HandleResolve ==
  /\ UNCHANGED nonClientVars
  /\ Runs("handle_resolve")
  /\ IF ~Head(ready).err
     THEN /\ c_op' = "connect"
          /\ c_socket' = "open"
          /\ deadline' = Expires(deadline, "finite")
          /\ ready' = AfterExpires(deadline, Tail(ready))
          /\ UNCHANGED <<c_status, c_hist>>
     ELSE /\ c_status' = "resolve"
          /\ c_hist' = [c_hist EXCEPT !.finished = TRUE]
          /\ ready' = Tail(ready)
          /\ UNCHANGED <<c_op, c_socket, deadline>>
  /\ UNCHANGED <<c_aborted, c_shutdown, c_hdr, main_pc, c_exit, c_out>>

\* part_003:101-138, handle_connect; compose and to_chars can fail
HandleConnect ==
  /\ UNCHANGED nonClientVars
  /\ Runs("handle_connect")
  /\ IF ~Head(ready).err
     THEN \E compose_err \in BOOLEAN :
            IF ~compose_err
            THEN /\ c_op' = "write"
                 /\ c_aborted' = (c_socket # "open")
                 /\ deadline' = Expires(deadline, "finite")
                 /\ UNCHANGED <<c_status, c_hist>>
            ELSE /\ c_status' = "compose"
                 /\ c_hist' = [c_hist EXCEPT !.failed = TRUE,
                                             !.finished = TRUE]
                 /\ deadline' = Expires(deadline, "max")
                 /\ UNCHANGED <<c_op, c_aborted>>
     ELSE /\ c_status' = "connect"
          /\ c_hist' = [c_hist EXCEPT !.finished = TRUE]
          /\ deadline' = Expires(deadline, "max")
          /\ UNCHANGED <<c_op, c_aborted>>
  /\ ready' = AfterExpires(deadline, Tail(ready))
  /\ UNCHANGED <<c_socket, c_shutdown, c_hdr, main_pc, c_exit, c_out>>

\* part_003:140-154, handle_write_request
HandleWriteRequest ==
  /\ UNCHANGED nonClientVars
  /\ Runs("handle_write_request")
  /\ IF ~Head(ready).err
     THEN /\ c_op' = "read_header"
          /\ c_aborted' = (c_socket # "open")
          /\ deadline' = Expires(deadline, "finite")
          /\ UNCHANGED <<c_status, c_hist>>
     ELSE /\ c_status' = "write"
          /\ c_hist' = [c_hist EXCEPT !.finished = TRUE]
          /\ deadline' = Expires(deadline, "max")
          /\ UNCHANGED <<c_op, c_aborted>>
  /\ ready' = AfterExpires(deadline, Tail(ready))
  /\ UNCHANGED <<c_socket, c_shutdown, c_hdr, main_pc, c_exit, c_out>>

\* part_003:156-187, handle_read_response_header, with do_read_counts or
\* do_finish as it calls them; the header received is that of an accepted
\* request or an error header, and parse can fail
HandleReadResponseHeader ==
  /\ UNCHANGED nonClientVars
  /\ Runs("handle_read_response_header")
  /\ IF ~Head(ready).err
     THEN \E parse_err \in BOOLEAN, hdr \in {"ok", "error"} :
            /\ c_hdr' = hdr
            /\ IF ~parse_err
               THEN /\ c_op' = "read_counts"
                    /\ c_aborted' = (c_socket # "open")
                    /\ deadline' = Expires(deadline, "finite")
                    /\ c_hist' = [c_hist EXCEPT !.failed = @ \/ hdr = "error"]
                    /\ UNCHANGED c_status
               ELSE /\ c_status' = "parse"
                    /\ c_hist' = [c_hist EXCEPT !.failed = TRUE,
                                                !.finished = TRUE]
                    /\ deadline' = Expires(deadline, "max")
                    /\ UNCHANGED <<c_op, c_aborted>>
     ELSE /\ c_status' = "read_header"
          /\ c_hist' = [c_hist EXCEPT !.finished = TRUE]
          /\ deadline' = Expires(deadline, "max")
          /\ UNCHANGED <<c_op, c_aborted, c_hdr>>
  /\ ready' = AfterExpires(deadline, Tail(ready))
  /\ UNCHANGED <<c_socket, c_shutdown, main_pc, c_exit, c_out>>

\* part_003:189-200, do_finish as the handler of the read of the counts
DoFinish ==
  /\ UNCHANGED nonClientVars
  /\ Runs("do_finish")
  /\ c_status' = IF Head(ready).err THEN "read_counts" ELSE c_status
  /\ c_hist' = [c_hist EXCEPT !.finished = TRUE]
  /\ deadline' = Expires(deadline, "max")
  /\ ready' = AfterExpires(deadline, Tail(ready))
  /\ UNCHANGED <<c_op, c_aborted, c_socket, c_shutdown, c_hdr, main_pc,
                 c_exit, c_out>>

\* part_003:202-225, check_deadline
CheckDeadline ==
  /\ UNCHANGED nonClientVars
  /\ Runs("check_deadline")
  /\ ready' = Tail(ready)
  /\ IF c_socket # "open"
     THEN /\ deadline' = [deadline EXCEPT !.wait = NoWait]
          /\ UNCHANGED <<c_socket, c_shutdown, c_aborted>>
     ELSE IF deadline.passed
     THEN /\ c_shutdown' = TRUE
          /\ c_socket' = "closed"
          /\ c_aborted' = (c_op \in SocketOps)
          /\ deadline' = [expiry |-> "max", passed |-> FALSE,
                          wait |-> AsyncWait]
     ELSE /\ deadline' = [deadline EXCEPT !.wait = AsyncWait]
          /\ UNCHANGED <<c_socket, c_shutdown, c_aborted>>
  /\ UNCHANGED <<c_op, c_status, c_hdr, c_hist, main_pc, c_exit, c_out>>

\* part_003:325: io_context.run() returns when no operation is outstanding
\* and no handler is ready
RunReturns ==
  /\ UNCHANGED nonClientVars
  /\ main_pc = "run"
  /\ c_op = "none"
  /\ deadline.wait = "none"
  /\ ready = <<>>
  /\ main_pc' = "after_run"
  /\ UNCHANGED <<c_op, c_aborted, c_socket, c_shutdown, deadline, ready,
                 c_status, c_hdr, c_hist, c_exit, c_out>>

\* the output is written whatever the status of the transaction is
WriteOutputUnchecked ==
  /\ UNCHANGED nonClientVars
  /\ main_pc = "after_run"
  /\ main_pc' = "returned"
  /\ \E opened \in BOOLEAN :
       IF opened THEN c_exit' = "EXIT_SUCCESS" /\ c_out' = TRUE
       ELSE c_exit' = "EXIT_FAILURE" /\ UNCHANGED c_out
  /\ UNCHANGED <<c_op, c_aborted, c_socket, c_shutdown, deadline, ready,
                 c_status, c_hdr, c_hist>>

\* part_003:335-351: the status is looked at and the output is written
WriteOutput ==
  /\ UNCHANGED nonClientVars
  /\ main_pc = "after_run"
  /\ main_pc' = "returned"
  /\ IF c_status # "ok"
     THEN c_exit' = "EXIT_FAILURE" /\ UNCHANGED c_out
     ELSE \E opened \in BOOLEAN :
            IF opened THEN c_exit' = "EXIT_SUCCESS" /\ c_out' = TRUE
            ELSE c_exit' = "EXIT_FAILURE" /\ UNCHANGED c_out
  /\ UNCHANGED <<c_op, c_aborted, c_socket, c_shutdown, deadline, ready,
                 c_status, c_hdr, c_hist>>

ClientNext ==
  \/ OpCompletes
  \/ OpAborted
  \/ DeadlinePasses
  \/ HandleResolve
  \/ HandleConnect
  \/ HandleWriteRequest
  \/ HandleReadResponseHeader
  \/ DoFinish
  \/ CheckDeadline
  \/ RunReturns
  \/ WriteOutput

\* the executor runs every handler that is ready, the clock advances, an
\* operation on a closed socket completes, and main goes on; nothing makes
\* an operation on the network complete by itself
ClientFairness ==
  /\ WF_vars(OpAborted)
  /\ WF_vars(DeadlinePasses)
  /\ WF_vars(HandleResolve)
  /\ WF_vars(HandleConnect)
  /\ WF_vars(HandleWriteRequest)
  /\ WF_vars(HandleReadResponseHeader)
  /\ WF_vars(DoFinish)
  /\ WF_vars(CheckDeadline)
  /\ WF_vars(RunReturns)
  /\ WF_vars(WriteOutput)

(***************************************************************************)
(* A client and the connection of the server that serves it, on a reliable *)
(* connection: the bytes arrive in the order they were written, nothing is *)
(* lost, no operation fails while the peer is there, and every stage ends  *)
(* before its deadline.  The bytes of the request that are on their way    *)
(* are those the connection has taken from the client (cl_written) and the *)
(* server has not read yet; the response is in sent.                       *)
(***************************************************************************)
\* part_003:305-308 and 319-320: n_intervals of the client is the number of
\* its intervals, at least one; a few, or as many as make the byte size of
\* the offsets reach 2 ^ UintBits
ClientIntervals == (1 .. MaxIntervals) \cup {(2 ^ UintBits) \div SizeofOffset}

\* part_003:112-118: the bytes handed to async_write, req_buf and then
\* req.offsets
RequestBytes(n) == buf_size + SizeofOffset * n

\* the bytes of the request the server has read: the header once
\* read_request has completed, and offset_byte bytes of the offsets
Consumed ==
  IF stage \in {"constructed", "read_request"} THEN 0
  ELSE buf_size + offset_byte

\* the count records the server has handed to async_write
CountsSent == IF Len(sent) >= 2 THEN sent[2][2] ELSE 0

\* no client is connected
WireIdle == cl_n = 0 /\ cl_written = 0

\* the client has its request and has written nothing yet
WireInit == cl_n \in ClientIntervals /\ cl_written = 0

\* the sizes of the segments the connection takes from a write of rem bytes
Segments(rem) == {1, SizeofOffset - 1, buf_size, rem} \cap (1 .. rem)

\* the connection takes the next bytes of the request from the async_write
\* of the client
WireWrites ==
  /\ c_op = "write"
  /\ ~c_aborted
  /\ cl_written < RequestBytes(cl_n)
  /\ \E k \in Segments(RequestBytes(cl_n) - cl_written) :
       cl_written' = cl_written + k
  /\ UNCHANGED <<coreVars, roundVars, cmdVars, clientVars, lateVars, cl_n>>

\* what the operation op of the client waits for is there: the whole request
\* was taken (async_write), response_buf_size bytes have come
\* (transfer_exactly, part_003:145), the count records of req.n_intervals
\* have come (transfer_exactly, part_003:181-183)
Arrived(op) ==
  CASE op = "write" -> cl_written = RequestBytes(cl_n)
    [] op = "read_header" -> Len(sent) >= 1
    [] op = "read_counts" -> CountsSent >= cl_n
    [] OTHER -> TRUE

\* an operation of the client completes without an error
WireOpCompletes ==
  /\ UNCHANGED nonClientVars
  /\ c_op \in ClientOps
  /\ ~c_aborted
  /\ Arrived(c_op)
  /\ ready' = Append(ready, [h |-> HandlerOf[c_op], err |-> FALSE])
  /\ c_op' = "none"
  /\ UNCHANGED <<c_aborted, c_socket, c_shutdown, deadline, c_status, c_hdr,
                 c_hist, main_pc, c_exit, c_out>>

\* the server has closed the connection: an operation of the client whose
\* bytes cannot arrive any more completes with an error
WireOpFails ==
  /\ UNCHANGED nonClientVars
  /\ c_op \in {"write", "read_header", "read_counts"}
  /\ ~c_aborted
  /\ stage = "closed"
  /\ ~Arrived(c_op)
  /\ ready' = Append(ready, [h |-> HandlerOf[c_op], err |-> TRUE])
  /\ c_hist' = [c_hist EXCEPT !.failed = TRUE]
  /\ c_op' = "none"
  /\ UNCHANGED <<c_aborted, c_socket, c_shutdown, deadline, c_status, c_hdr,
                 main_pc, c_exit, c_out>>

\* part_003:156-177 on the bytes the server has sent: parse(resp_buf,
\* resp_hdr) reads the header the server wrote
WireHandleReadResponseHeader ==
  /\ HandleReadResponseHeader
  /\ ~Head(ready).err =>
       \E r \in from_chars_hdr(sent[1]) :
         /\ (c_status' = "parse") <=> r.err
         /\ c_hdr' = (IF IsError(r.st) THEN "error" ELSE "ok")

\* no completion handler of the server has received an error code
NoIoError == \A i \in (Len(log) + 1) .. Len(log') : log'[i] # "io_error"

\* the server accepts the connection once the client has started to connect
WireStart == Start /\ c_socket = "open"

\* connection.cpp:57-58: transfer_exactly(request_buf_size) completes when
\* the header of the client has arrived; req is parsed from its bytes
WireReadRequest ==
  /\ cl_written >= buf_size
  /\ ReadRequest({cl_n})
  /\ NoIoError

\* connection.cpp:105-107: async_read_some completes with bytes that have
\* arrived
WireReadOffsets ==
  /\ ReadOffsetsDone
  /\ buf_size + offset_byte' <= cl_written
  /\ NoIoError

WireWriteHeaderDone == WriteHeaderDone /\ NoIoError
WireWriteCountsDone == WriteCountsDone /\ NoIoError
WireWriteErrorDone == WriteErrorDone /\ NoIoError

WireNext ==
  \/ WireStart
  \/ WireWrites
  \/ WireReadRequest
  \/ WireReadOffsets
  \/ WireWriteHeaderDone
  \/ WireWriteCountsDone
  \/ WireWriteErrorDone
  \/ WireOpCompletes
  \/ WireOpFails
  \/ HandleResolve
  \/ HandleConnect
  \/ HandleWriteRequest
  \/ WireHandleReadResponseHeader
  \/ DoFinish
  \/ CheckDeadline

\* both executors run every handler that is ready and the connection
\* delivers what was written
WireFairness ==
  /\ WF_vars(WireStart)
  /\ WF_vars(WireWrites)
  /\ WF_vars(WireReadRequest)
  /\ WF_vars(WireReadOffsets)
  /\ WF_vars(WireWriteHeaderDone)
  /\ WF_vars(WireWriteCountsDone)
  /\ WF_vars(WireWriteErrorDone)
  /\ WF_vars(WireOpCompletes)
  /\ WF_vars(WireOpFails)
  /\ WF_vars(HandleResolve)
  /\ WF_vars(HandleConnect)
  /\ WF_vars(HandleWriteRequest)
  /\ WF_vars(WireHandleReadResponseHeader)
  /\ WF_vars(DoFinish)
  /\ WF_vars(CheckDeadline)

(***************************************************************************)
(* The CpG index set: cpg_index_set (src/unnamed/part_000).  A file of the *)
(* directory is described by the assembly its name gives ("" when the name *)
(* is not that of an index) and by what reading its index and its metadata *)
(* answers.  A map holds, for an assembly, the place in the directory of   *)
(* the file that was read into it.                                         *)
(***************************************************************************)
\* the assemblies of the model
Assemblies == {"a", "b"}

\* the files a directory can hold
SetFiles ==
  [assembly : Assemblies \cup {""}, index_ok : BOOLEAN, meta_ok : BOOLEAN]

\* the index directories, in the order the directory iterator gives
SetDirs == SeqsUpTo(SetFiles, MaxIndexFiles)

\* a map without keys
EmptyMap == <<>>

\* std::unordered_map::emplace: nothing changes when the key is there
emplace(map, key, value) ==
  IF key \in DOMAIN map THEN map
  ELSE [x \in DOMAIN map \cup {key} |-> IF x = key THEN value ELSE map[x]]

\* a variant of read_file that leaves the maps as they are when a read fails
read_file_keep(f, k, im, mm) ==
  IF f.assembly = "" THEN [im |-> im, mm |-> mm, returned |-> FALSE]
  ELSE IF ~f.index_ok THEN [im |-> im, mm |-> mm, returned |-> TRUE]
  ELSE IF ~f.meta_ok
  THEN [im |-> emplace(im, f.assembly, k), mm |-> mm, returned |-> TRUE]
  ELSE [im |-> emplace(im, f.assembly, k),
        mm |-> emplace(mm, f.assembly, k), returned |-> FALSE]

\* part_000:88-118, the body of the loop over the directory for the file f
\* at place k, with the maps im and mm: the maps afterwards and whether the
\* constructor has returned
read_file(f, k, im, mm) ==
  IF f.assembly = "" THEN [im |-> im, mm |-> mm, returned |-> FALSE]
  ELSE IF ~f.index_ok
  THEN [im |-> EmptyMap, mm |-> EmptyMap, returned |-> TRUE]
  ELSE IF ~f.meta_ok
  THEN [im |-> EmptyMap, mm |-> EmptyMap, returned |-> TRUE]
  ELSE [im |-> emplace(im, f.assembly, k),
        mm |-> emplace(mm, f.assembly, k), returned |-> FALSE]

\* part_000:66-76, get_cpg_index_with_meta
get_cpg_index_with_meta(assembly_name) ==
  IF assembly_name \notin DOMAIN idx_map
  THEN [ec |-> "invalid_argument", index |-> 0, meta |-> 0]
  ELSE IF assembly_name \notin DOMAIN meta_map
  THEN [ec |-> "invalid_argument", index |-> 0, meta |-> 0]
  ELSE [ec |-> "ok", index |-> idx_map[assembly_name],
        meta |-> meta_map[assembly_name]]

\* no index set is constructed
SetIdle ==
  /\ set_dir = <<>>
  /\ set_k = 0
  /\ idx_map = EmptyMap
  /\ meta_map = EmptyMap
  /\ set_pc = "idle"
  /\ set_answer = [query |-> "", ec |-> "none", index |-> 0, meta |-> 0]


\* part_000:78-86: the constructor is about to iterate over the directory
SetInit ==
  /\ set_dir \in SetDirs
  /\ set_k = 1
  /\ idx_map = EmptyMap
  /\ meta_map = EmptyMap
  /\ set_pc = "scan"
  /\ set_answer = [query |-> "", ec |-> "none", index |-> 0, meta |-> 0]

\* part_000:87-119: one turn of the loop over the directory
ReadFile ==
  /\ UNCHANGED nonSetVars
  /\ set_pc = "scan"
  /\ set_k <= Len(set_dir)
  /\ LET r == read_file(set_dir[set_k], set_k, idx_map, meta_map) IN
       /\ idx_map' = r.im
       /\ meta_map' = r.mm
       /\ set_pc' = IF r.returned THEN "constructed" ELSE "scan"
  /\ set_k' = set_k + 1
  /\ UNCHANGED <<set_dir, set_answer>>

\* part_000:120-121: the directory is exhausted
SetConstructed ==
  /\ UNCHANGED nonSetVars
  /\ set_pc = "scan"
  /\ set_k > Len(set_dir)
  /\ set_pc' = "constructed"
  /\ UNCHANGED <<set_dir, set_k, idx_map, meta_map, set_answer>>

\* a handler asks the set for the index of an assembly
GetCpgIndexWithMeta ==
  /\ UNCHANGED nonSetVars
  /\ set_pc = "constructed"
  /\ \E name \in Assemblies \cup {"c"} :
       LET r == get_cpg_index_with_meta(name) IN
         set_answer' = [query |-> name, ec |-> r.ec, index |-> r.index,
                        meta |-> r.meta]
  /\ UNCHANGED <<set_dir, set_k, idx_map, meta_map, set_pc>>

SetNext ==
  \/ ReadFile
  \/ SetConstructed
  \/ GetCpgIndexWithMeta

(***************************************************************************)
(* The compression adapter: compress and decompress of                     *)
(* src/src/zlib_adapter.hpp.  The calls of zlib answer as its manual       *)
(* states for the stream and the buffers they are given; avail_in and      *)
(* avail_out of z_stream are unsigned int and are kept at the width of     *)
(* the model.                                                              *)
(***************************************************************************)
\* the bytes deflateBound adds to the size of its input
DeflateOverhead == 2

\* the sizes, in bytes, of the buffers of the model
ZSizes ==
  {0, 1, UintMax - DeflateOverhead, UintMax - DeflateOverhead + 1, UintMax,
   UintMax + 1}

\* what the compressed bytes given to decompress are
ZData == {"sound", "truncated", "corrupt", "dict"}

\* the calls of compress: in has size bytes
CompressCalls ==
  [ndebug : BOOLEAN, size : ZSizes, data : {"sound"}, orig : {0}]

\* the calls of decompress: out has size bytes, the compressed bytes hold
\* orig bytes of data
DecompressCalls ==
  [ndebug : BOOLEAN, size : ZSizes, data : ZData, orig : {0, 1, UintMax + 1}]

\* zlib: an upper bound of the compressed size of n bytes
deflateBound(n) == n + DeflateOverhead

\* zlib: what deflateInit2 and inflateInit return
InitCodes == {"Z_OK", "Z_MEM_ERROR", "Z_VERSION_ERROR", "Z_STREAM_ERROR"}

\* zlib: what deflate(&strm, Z_FINISH) returns for a stream strm with
\* avail_in bytes to read and room for avail_out bytes
DeflateCodes(strm, avail_in, avail_out) ==
  IF strm # "live" THEN {"Z_STREAM_ERROR"}
  ELSE IF avail_out = 0 THEN {"Z_BUF_ERROR"}
  ELSE {IF need <= avail_out THEN "Z_STREAM_END" ELSE "Z_OK" :
          need \in {DeflateOverhead, deflateBound(avail_in)}}

\* zlib: what deflateEnd returns after deflate has returned run
DeflateEndCodes(strm, run) ==
  IF strm # "live" THEN {"Z_STREAM_ERROR"}
  ELSE IF run = "Z_STREAM_END" THEN {"Z_OK"}
  ELSE {"Z_OK", "Z_DATA_ERROR"}

\* zlib: what inflate(&strm, Z_FINISH) returns; out.data() of an empty
\* vector may be null
InflateCodes(strm, call) ==
  IF strm # "live" THEN {"Z_STREAM_ERROR"}
  ELSE
    {"Z_MEM_ERROR"}
      \cup (IF call.size = 0 THEN {"Z_STREAM_ERROR"} ELSE {})
      \cup {CASE call.data = "corrupt" -> "Z_DATA_ERROR"
              [] call.data = "dict" -> "Z_NEED_DICT"
              [] call.data = "truncated" -> "Z_BUF_ERROR"
              [] OTHER -> IF call.orig <= Uint(call.size)
                          THEN "Z_STREAM_END" ELSE "Z_BUF_ERROR"}

\* no function of the adapter runs
ZIdle ==
  /\ z_fn = "none"
  /\ z_in = [ndebug |-> FALSE, size |-> 0, data |-> "sound", orig |-> 0]
  /\ z_pc = "idle"
  /\ z_ret = [init |-> "none", run |-> "none", end |-> "none"]
  /\ z_strm = "none"
  /\ z_ends = 0
  /\ z_assert = FALSE
  /\ z_result = "none"

\* zlib_adapter.hpp:98 and 156: a function of the adapter is entered
ZInit ==
  /\ z_fn \in {"compress", "decompress"}
  /\ z_in \in IF z_fn = "compress" THEN CompressCalls ELSE DecompressCalls
  /\ z_pc = "init"
  /\ z_ret = [init |-> "none", run |-> "none", end |-> "none"]
  /\ z_strm = "none"
  /\ z_ends = 0
  /\ z_assert = FALSE
  /\ z_result = "none"

\* the function returns the error code e
ZReturn(e) ==
  /\ z_pc' = "returned"
  /\ z_result' = e
  /\ z_assert' = z_assert

\* assert(cond), then the function goes on at pc
ZAssert(cond, pc) ==
  /\ z_assert' = (z_assert \/ ~cond)
  /\ z_pc' = IF ~cond /\ ~z_in.ndebug THEN "aborted" ELSE pc
  /\ z_result' = z_result

\* zlib_adapter.hpp:100-109
CompressInit ==
  /\ UNCHANGED nonZVars
  /\ z_fn = "compress"
  /\ z_pc = "init"
  /\ \E ret \in InitCodes :
       /\ z_ret' = [z_ret EXCEPT !.init = ret]
       /\ z_strm' = IF ret = "Z_OK" THEN "live" ELSE z_strm
       /\ CASE ret = "Z_VERSION_ERROR" -> ZReturn("z_version_error")
            [] ret = "Z_STREAM_ERROR" -> ZReturn("z_stream_error")
            [] OTHER -> ZAssert(ret = "Z_OK", "run")
  /\ UNCHANGED <<z_fn, z_in, z_ends>>

\* zlib_adapter.hpp:113-134
CompressDeflate ==
  /\ UNCHANGED nonZVars
  /\ z_fn = "compress"
  /\ z_pc = "run"
  /\ LET n_input_bytes == z_in.size
         avail_in == Uint(n_input_bytes)
         avail_out == Uint(deflateBound(n_input_bytes))
     IN \E ret \in DeflateCodes(z_strm, avail_in, avail_out) :
          /\ z_ret' = [z_ret EXCEPT !.run = ret]
          /\ CASE ret = "Z_STREAM_ERROR" -> ZReturn("z_stream_error")
               [] ret = "Z_BUF_ERROR" -> ZReturn("z_buf_error")
               [] OTHER -> ZAssert(ret = "Z_STREAM_END", "end")
  /\ UNCHANGED <<z_fn, z_in, z_strm, z_ends>>

\* zlib_adapter.hpp:136-150
CompressEnd ==
  /\ UNCHANGED nonZVars
  /\ z_fn = "compress"
  /\ z_pc = "end"
  /\ \E ret \in DeflateEndCodes(z_strm, z_ret.run) :
       /\ z_ret' = [z_ret EXCEPT !.end = ret]
       /\ z_strm' = IF ret = "Z_STREAM_ERROR" THEN z_strm ELSE "ended"
       /\ CASE ret = "Z_STREAM_ERROR" -> ZReturn("z_stream_error")
            [] ret = "Z_DATA_ERROR" -> ZReturn("z_data_error")
            [] OTHER ->
                 /\ z_assert' = (z_assert \/ ret # "Z_OK")
                 /\ z_pc' = IF ret # "Z_OK" /\ ~z_in.ndebug
                            THEN "aborted" ELSE "returned"
                 /\ z_result' = IF ret # "Z_OK" /\ ~z_in.ndebug
                                THEN z_result ELSE "ok"
  /\ z_ends' = z_ends + 1
  /\ UNCHANGED <<z_fn, z_in>>

\* zlib_adapter.hpp:158-167
DecompressInit ==
  /\ UNCHANGED nonZVars
  /\ z_fn = "decompress"
  /\ z_pc = "init"
  /\ \E ret \in InitCodes :
       /\ z_ret' = [z_ret EXCEPT !.init = ret]
       /\ z_strm' = IF ret = "Z_OK" THEN "live" ELSE z_strm
       /\ CASE ret = "Z_VERSION_ERROR" -> ZReturn("z_version_error")
            [] ret = "Z_STREAM_ERROR" -> ZReturn("z_stream_error")
            [] ret = "Z_MEM_ERROR" -> ZReturn("z_mem_error")
            [] OTHER -> ZAssert(ret = "Z_OK", "run")
  /\ UNCHANGED <<z_fn, z_in, z_ends>>

\* zlib_adapter.hpp:169-193
DecompressInflate ==
  /\ UNCHANGED nonZVars
  /\ z_fn = "decompress"
  /\ z_pc = "run"
  /\ \E ret \in InflateCodes(z_strm, z_in) :
       LET ended == ret \in {"Z_NEED_DICT", "Z_MEM_ERROR", "Z_DATA_ERROR"} IN
         /\ z_ret' = [z_ret EXCEPT !.run = ret]
         /\ z_ends' = IF ended THEN z_ends + 1 ELSE z_ends
         /\ z_strm' = IF ended THEN "ended" ELSE z_strm
         /\ CASE ret = "Z_STREAM_ERROR" -> ZReturn("z_stream_error")
              [] ret = "Z_NEED_DICT" -> ZReturn("z_need_dict")
              [] ret = "Z_MEM_ERROR" -> ZReturn("z_mem_error")
              [] ret = "Z_DATA_ERROR" -> ZReturn("z_data_error")
              [] ret = "Z_BUF_ERROR" -> ZReturn("z_buf_error")
              [] OTHER -> ZAssert(ret = "Z_STREAM_END", "end")
  /\ UNCHANGED <<z_fn, z_in>>

\* zlib_adapter.hpp:195-202
DecompressEnd ==
  /\ UNCHANGED nonZVars
  /\ z_fn = "decompress"
  /\ z_pc = "end"
  /\ LET ret == IF z_strm = "live" THEN "Z_OK" ELSE "Z_STREAM_ERROR" IN
       /\ z_ret' = [z_ret EXCEPT !.end = ret]
       /\ z_strm' = IF ret = "Z_OK" THEN "ended" ELSE z_strm
       /\ ZReturn(IF ret = "Z_STREAM_ERROR" THEN "z_stream_error" ELSE "ok")
  /\ z_ends' = z_ends + 1
  /\ UNCHANGED <<z_fn, z_in>>

ZNext ==
  \/ CompressInit
  \/ CompressDeflate
  \/ CompressEnd
  \/ DecompressInit
  \/ DecompressInflate
  \/ DecompressEnd

(***************************************************************************)
(* The download: do_download and download of src/src/download.cpp.  The    *)
(* call says how the preparation of the output directory ends, which       *)
(* operation fails if any, with which error the shutdown fails, and what   *)
(* the response holds.  Nothing else touches the output file.              *)
(***************************************************************************)
\* how lines 159-183 of download can end
DlPreps == {"ok", "not_dir", "mkdir_fails", "open_fails", "remove_fails"}

\* the operations of do_download that can fail
DlStages == <<"open", "resolve", "connect", "write", "read", "shutdown">>

\* the calls of download
DlCalls ==
  [prep : DlPreps,
   existed : BOOLEAN,
   fails : {"none"} \cup {DlStages[i] : i \in DOMAIN DlStages},
   shutdown_ec : {"not_connected", "error"},
   result : {"200", "404"},
   fields : SeqsUpTo({"Status", "Server"}, MaxFields)]

\* no download runs
DlIdle ==
  /\ dl_in = [prep |-> "ok", existed |-> FALSE, fails |-> "none",
              shutdown_ec |-> "error", result |-> "200", fields |-> <<>>]
  /\ dl_pc = "idle"
  /\ dl_file = FALSE
  /\ dl_ec = "none"
  /\ dl_header = EmptyMap
  /\ dl_failed = "none"

\* download.cpp:150-158: download is entered
DlInit ==
  /\ dl_in \in DlCalls
  /\ dl_pc = "prepare"
  /\ dl_file = dl_in.existed
  /\ dl_ec = "none"
  /\ dl_header = EmptyMap
  /\ dl_failed = "none"

\* download.cpp:159-183: the output directory is made and the output file
\* is opened and removed
DlPrepare ==
  /\ UNCHANGED nonDlVars
  /\ dl_pc = "prepare"
  /\ dl_file' = CASE dl_in.prep = "ok" -> FALSE
                  [] dl_in.prep = "remove_fails" -> TRUE
                  [] OTHER -> dl_file
  /\ dl_ec' = IF dl_in.prep = "ok" THEN "none" ELSE "error"
  /\ dl_pc' = IF dl_in.prep = "ok" THEN "open" ELSE "returned"
  /\ UNCHANGED <<dl_in, dl_header, dl_failed>>

\* a variant of DlStageFails that leaves the output file in place
DlStageFailsKeep(st) ==
  /\ dl_failed' = st
  /\ dl_ec' = IF st = "shutdown" THEN dl_in.shutdown_ec ELSE "error"
  /\ dl_file' = dl_file
  /\ dl_pc' = "ran"
  /\ dl_header' = dl_header

\* download.cpp:79-82, 89-92, 105-108, 126-129, 134-137: the operation of
\* the stage has set ec; the output file is removed and do_download returns
DlStageFails(st) ==
  /\ dl_failed' = st
  /\ dl_ec' = IF st = "shutdown" THEN dl_in.shutdown_ec ELSE "error"
  /\ dl_file' = FALSE
  /\ dl_pc' = "ran"
  /\ dl_header' = dl_header

\* the operation of the stage has succeeded; do_download goes on at next
DlStageDone(next) ==
  /\ dl_pc' = next
  /\ UNCHANGED <<dl_file, dl_ec, dl_header, dl_failed>>

\* download.cpp:68-72: the file of the body is opened
DlOpenBody ==
  /\ UNCHANGED nonDlVars
  /\ dl_pc = "open"
  /\ IF dl_in.fails = "open"
     THEN /\ dl_failed' = "open"
          /\ dl_ec' = "error"
          /\ dl_pc' = "ran"
          /\ UNCHANGED <<dl_file, dl_header>>
     ELSE /\ dl_file' = TRUE
          /\ dl_pc' = "resolve"
          /\ UNCHANGED <<dl_ec, dl_header, dl_failed>>
  /\ UNCHANGED dl_in

\* download.cpp:74-82
DlResolve ==
  /\ UNCHANGED nonDlVars
  /\ dl_pc = "resolve"
  /\ IF dl_in.fails = "resolve" THEN DlStageFails("resolve")
     ELSE DlStageDone("connect")
  /\ UNCHANGED dl_in

\* download.cpp:84-92
DlConnect ==
  /\ UNCHANGED nonDlVars
  /\ dl_pc = "connect"
  /\ IF dl_in.fails = "connect" THEN DlStageFails("connect")
     ELSE DlStageDone("write")
  /\ UNCHANGED dl_in

\* download.cpp:94-108
DlWrite ==
  /\ UNCHANGED nonDlVars
  /\ dl_pc = "write"
  /\ IF dl_in.fails = "write" THEN DlStageFails("write")
     ELSE DlStageDone("read")
  /\ UNCHANGED dl_in

\* download.cpp:110-130
DlRead ==
  /\ UNCHANGED nonDlVars
  /\ dl_pc = "read"
  /\ IF dl_in.fails = "read" THEN DlStageFails("read")
     ELSE DlStageDone("shutdown")
  /\ UNCHANGED dl_in

\* download.cpp:143-147: the header map for a response
MakeHeader(result, fields) ==
  LET RECURSIVE Fill(_, _)
      Fill(h, k) ==
        IF k > Len(fields) THEN h
        ELSE Fill(emplace(h, fields[k], "field"), k + 1)
  IN Fill(emplace(emplace(EmptyMap, "Status", result), "Reason", result), 1)

\* download.cpp:132-148: the socket is shut down and the header is filled
DlShutdown ==
  /\ UNCHANGED nonDlVars
  /\ dl_pc = "shutdown"
  /\ IF dl_in.fails = "shutdown" /\ dl_in.shutdown_ec # "not_connected"
     THEN DlStageFails("shutdown")
     ELSE /\ dl_failed' = IF dl_in.fails = "shutdown" THEN "shutdown"
                          ELSE dl_failed
          /\ dl_ec' = IF dl_in.fails = "shutdown" THEN dl_in.shutdown_ec
                      ELSE dl_ec
          /\ dl_header' = MakeHeader(dl_in.result, dl_in.fields)
          /\ dl_pc' = "ran"
          /\ dl_file' = dl_file
  /\ UNCHANGED dl_in

\* download.cpp:199-210: ioc.run() has returned
DlReturn ==
  /\ UNCHANGED nonDlVars
  /\ dl_pc = "ran"
  /\ dl_ec' = IF dl_ec = "none" /\ ~({"Status", "Reason"} \subseteq DOMAIN dl_header)
              THEN "invalid_argument" ELSE dl_ec
  /\ dl_pc' = "returned"
  /\ UNCHANGED <<dl_in, dl_file, dl_header, dl_failed>>

DlNext ==
  \/ DlPrepare
  \/ DlOpenBody
  \/ DlResolve
  \/ DlConnect
  \/ DlWrite
  \/ DlRead
  \/ DlShutdown
  \/ DlReturn

\* nothing of the index set, the adapter and the download is active
LateIdle == SetIdle /\ ZIdle /\ DlIdle

(***************************************************************************)
(* The specifications.                                                     *)
(***************************************************************************)
\* a connection of a server whose methylome set is left alone
\* nothing but the subsystem under study is active
ExtIdle == RoundIdle /\ CmdIdle /\ ClientIdle /\ WireIdle /\ LateIdle

RestIdle == CodecIdle /\ KernelIdle /\ QueryIdle /\ BinsIdle /\ ExtIdle

\* the server and the data are left alone
CoreIdle ==
  /\ ConnInit /\ methylome_set(1)
  /\ CodecIdle /\ KernelIdle /\ QueryIdle /\ BinsIdle

InitConn == ConnInit /\ methylome_set(1) /\ RestIdle

SpecConn == InitConn /\ [][ConnNext]_vars

\* the executor runs every completion handler that is ready, and a peer that
\* stays active goes on sending and receiving; nothing makes a peer stall
ConnFairness ==
  /\ WF_vars(Start)
  /\ WF_vars(ReadRequestDone)
  /\ WF_vars(ReadOffsetsDone)
  /\ WF_vars(WriteHeaderDone)
  /\ WF_vars(WriteCountsDone)
  /\ WF_vars(WriteErrorDone)

SpecConnLive == InitConn /\ [][ConnNext]_vars /\ ConnFairness

\* a connection that receives a request with any n_intervals
SpecConnWide == InitConn /\ [][ConnWideNext]_vars

\* the methylome set of a server, its connections left alone
InitCache == ConnInit /\ CacheInit /\ RestIdle

SpecCache == InitCache /\ [][CacheNext]_vars

\* a request encoded by a client and decoded again
InitCodec ==
  /\ ConnInit /\ methylome_set(1)
  /\ CodecInit /\ KernelIdle /\ QueryIdle /\ BinsIdle /\ ExtIdle

SpecCodec == InitCodec /\ [][CodecNext]_vars

\* a request buffer received from the network and decoded
InitDecode ==
  /\ ConnInit /\ methylome_set(1)
  /\ DecodeInit /\ KernelIdle /\ QueryIdle /\ BinsIdle /\ ExtIdle

SpecDecode == InitDecode /\ [][FromBuffer]_vars

\* a request buffer without padding received from the network and decoded
InitDecodeFull ==
  /\ ConnInit /\ methylome_set(1)
  /\ DecodeFullInit /\ KernelIdle /\ QueryIdle /\ BinsIdle /\ ExtIdle

SpecDecodeFull == InitDecodeFull /\ [][FromBuffer]_vars

\* a client turns intervals into offsets and the server aggregates over them
InitQuery ==
  /\ ConnInit /\ methylome_set(1)
  /\ CodecIdle /\ QueryInit /\ BinsIdle /\ ExtIdle

SpecQuery == InitQuery /\ [][QueryNext]_vars

\* a run of the bins command
InitBins ==
  /\ ConnInit /\ methylome_set(1)
  /\ CodecIdle /\ QueryIdle /\ BinsInit /\ ExtIdle

SpecBins == InitBins /\ [][BinsNext]_vars

\* a pair of counts is stored in a methylome
InitRound ==
  CoreIdle /\ RoundInit /\ CmdIdle /\ ClientIdle /\ WireIdle /\ LateIdle

SpecRound == InitRound /\ [][ConditionalRoundToFit]_vars

\* a run of the server command
InitServerCmd ==
  CoreIdle /\ RoundIdle /\ ServerCmdInit /\ ClientIdle /\ WireIdle /\ LateIdle

SpecServerCmd == InitServerCmd /\ [][ServerCmdNext]_vars

\* a run of the index command
InitIndexCmd ==
  CoreIdle /\ RoundIdle /\ IndexCmdInit /\ ClientIdle /\ WireIdle /\ LateIdle

SpecIndexCmd == InitIndexCmd /\ [][IndexCmdNext]_vars

\* a run of the client against any server and any network
InitClient ==
  CoreIdle /\ RoundIdle /\ CmdIdle /\ ClientInit /\ WireIdle /\ LateIdle

SpecClient == InitClient /\ [][ClientNext]_vars

SpecClientLive == InitClient /\ [][ClientNext]_vars /\ ClientFairness

\* a client and the connection that serves it
InitWire ==
  CoreIdle /\ RoundIdle /\ CmdIdle /\ ClientInit /\ WireInit /\ LateIdle

SpecWire == InitWire /\ [][WireNext]_vars

SpecWireLive == InitWire /\ [][WireNext]_vars /\ WireFairness

\* the state of the other subsystems while a helper is studied
EarlyIdle == CoreIdle /\ RoundIdle /\ CmdIdle /\ ClientIdle /\ WireIdle

\* the construction of a CpG index set and the lookups that follow
InitSet == EarlyIdle /\ SetInit /\ ZIdle /\ DlIdle

SpecSet == InitSet /\ [][SetNext]_vars

\* a call of compress or of decompress
InitZlib == EarlyIdle /\ SetIdle /\ ZInit /\ DlIdle

SpecZlib == InitZlib /\ [][ZNext]_vars

\* a call of download
InitDownload == EarlyIdle /\ SetIdle /\ ZIdle /\ DlInit

SpecDownload == InitDownload /\ [][DlNext]_vars

(***************************************************************************)
(* Properties of the connection (SpecConn).                                *)
(***************************************************************************)
Logged(e) == \E i \in 1 .. Len(log) : log[i] = e
Count(e) == Cardinality({i \in 1 .. Len(log) : log[i] = e})
\* every occurrence of step e comes after an occurrence of step d
Before(d, e) ==
  \A i \in 1 .. Len(log) :
    log[i] = e => \E j \in 1 .. (i - 1) : log[j] = d
\* the steps that start an asynchronous read or write on the socket
IoStarts == {"read_request", "read_offsets", "write_header", "write_counts",
             "write_error"}
\* the header buffers handed to async_write
HeadersSent == {i \in 1 .. Len(sent) : sent[i][1] \in {"hdr", "zero"}}
\* the header and the request of the connection parsed and validated
Validated == Logged("request_parsed")

\* the steps of a request served without any error, in order
ServedLog ==
  <<"read_request", "header_parsed", "handle_header", "request_parsed",
    "read_offsets", "handle_get_counts", "write_header", "header_written",
    "write_counts", "counts_written", "shutdown">>

\* the order of the steps of a validated request, the shutdown left aside
StepsInOrder ==
  /\ Count("handle_get_counts") <= 1
  /\ Logged("handle_get_counts") =>
       /\ offset_byte = SizeofOffset * n_intervals
       /\ offset_remaining = 0
  /\ Before("read_request", "read_offsets")
  /\ Before("read_offsets", "handle_get_counts")
  /\ Before("handle_get_counts", "write_header")
  /\ Before("header_written", "write_counts")
  /\ Logged("counts_written") => log = ServedLog

C2_ErrorHeaderEncodesStatus ==
  err_status \in ErrorStatuses =>
    /\ resp_buf = to_chars_hdr(err_status)
    /\ \A i \in HeadersSent : sent[i] = to_chars_hdr(err_status)

\* C3: on the error-response path the connection writes at most one
\* response header and no counts, starts no read of the offsets afterwards,
\* and shuts the socket down once the error header is written.
C3_ErrorPath ==
  Logged("respond_with_error") =>
    /\ Cardinality(HeadersSent) <= 1
    /\ Count("write_error") + Count("write_header") <= 1
    /\ ~Logged("write_counts")
    /\ \A i \in 1 .. Len(sent) : sent[i][1] # "counts"
    /\ \A i, j \in 1 .. Len(log) :
         (log[i] = "respond_with_error" /\ j > i) => log[j] # "read_offsets"
    /\ Logged("error_written") =>
         /\ sock_shutdown
         /\ stage = "closed"
         /\ log[Len(log)] = "shutdown"
         /\ log[Len(log) - 1] = "error_written"

\* the error header was written and the socket shut down
C3_Witness ==
  /\ Logged("error_written")
  /\ sock_shutdown
  /\ err_status \in ErrorStatuses

\* C4: when the request header or the request after it fails to parse, the
\* response header is set to bad_request and the error-response path is
\* taken; handle_header is not called on a header parse failure, and in
\* both cases no offsets are read and handle_get_counts is not called.
C4_ParseFailure ==
  /\ Logged("header_parse_error") =>
       /\ err_status = bad_request
       /\ Logged("respond_with_error")
       /\ ~Logged("handle_header")
       /\ ~Logged("read_offsets")
       /\ ~Logged("handle_get_counts")
  /\ Logged("request_parse_error") =>
       /\ err_status = bad_request
       /\ Logged("respond_with_error")
       /\ Logged("handle_header")
       /\ ~Logged("read_offsets")
       /\ ~Logged("handle_get_counts")

\* the request after a valid header failed to parse and the error path ran
C4_Witness ==
  /\ Logged("request_parse_error")
  /\ Logged("respond_with_error")
  /\ stage = "closed"

\* C10: after an I/O error was reported to a completion handler, the
\* connection starts no further read or write on its socket.
C10_DroppedAfterIoError ==
  \A i, j \in 1 .. Len(log) :
    (log[i] = "io_error" /\ j > i) => log[j] \notin IoStarts

\* C11: on every I/O error of the connection, in whichever stage it
\* occurs, the socket has been shut down explicitly when the connection is
\* destroyed.
C11_ShutdownOnEveryIoError ==
  (Logged("io_error") /\ stage = "closed") => sock_shutdown

\* C12: a connection whose peer stops sending or receiving is eventually
\* aborted by the server, without any further action of the peer: no
\* connection waits forever in a read or write stage.
C12_StalledPeerAborted == (peer = "stalled") ~> (stage = "closed")

\* the byte size of the offsets array of the request
OffsetsTotal == SizeofOffset * n_intervals

C13_WitnessEmpty ==
  /\ Logged("handle_get_counts")
  /\ n_intervals = 0
  /\ offset_byte = 0

(***************************************************************************)
(* Properties of the request codec (SpecCodec, SpecDecode).                *)
(***************************************************************************)
\* C14: request round trip.  For every valid request, encoding it with
\* to_buffer and decoding the buffer with from_buffer returns status ok and
\* the same accession, methylome_size and n_intervals.
C14_RoundTrip ==
  rq_pc = "decoded" => (rq_status = "ok" /\ request = rq_in)

\* a request with the longest accession and the largest size went through
\* to_buffer and from_buffer
C14_Witness ==
  /\ rq_pc = "decoded"
  /\ Len(rq_in.accession) = MaxAccLen
  /\ rq_in.methylome_size = UintMax
  /\ rq_in.n_intervals = 10
  /\ buf[Len(format_request(rq_in))] = term

\* an accession of alphanumerics and '_' only
ValidAccession(acc) == \A i \in 1 .. Len(acc) : IsAccessionChar(acc[i])

\* C15: decoding is total and never accepts garbage.  from_buffer applied
\* to any content of the request buffer returns either ok with a valid
\* request (an accession of alphanumerics and '_', both numbers 32-bit
\* values) or one of the malformed statuses; never ok for an invalid request.
C15_DecodeNeverAcceptsGarbage ==
  rq_pc = "parsed" =>
    /\ rq_status \in RequestStatuses
    /\ rq_status = "ok" =>
         /\ ValidAccession(request.accession)
         /\ request.methylome_size \in 0 .. UintMax
         /\ request.n_intervals \in 0 .. UintMax

(***************************************************************************)
(* Properties of the offset query and the interval aggregation (SpecQuery).*)
(***************************************************************************)
\* the number of positions of chromosome ch_id below v
CountBelow(idx, ch_id, v) ==
  Cardinality({k \in 1 .. Len(idx.positions[ch_id]) :
                 idx.positions[ch_id][k] < v})

\* the number of positions of chromosome ch_id in [a, b)
CountWithin(idx, ch_id, a, b) ==
  Cardinality({k \in 1 .. Len(idx.positions[ch_id]) :
                 a <= idx.positions[ch_id][k] /\ idx.positions[ch_id][k] < b})

\* scenario S2: the intervals (chr1, 3, 7) and (chr2, 0, 2)
S2Intervals ==
  <<[ch_id |-> 1, start |-> 3, stop |-> 7],
    [ch_id |-> 2, start |-> 0, stop |-> 2]>>

\* C16: offset query.  For every index and every interval with start <=
\* stop, the pair returned is lo = chrom_offset + the number of positions of
\* the chromosome below start, hi = chrom_offset + the number below stop, so
\* that lo <= hi and hi - lo is the number of positions in [start, stop);
\* the batch query returns these pairs in the order of its input, and on
\* the S1 index (chr1, 3, 7) gives (1, 3) and (chr2, 0, 2) gives (3, 4).
C16_OffsetQuery ==
  q_pc \in {"offsets", "counted"} =>
    /\ Len(offsets) = Len(gis)
    /\ \A k \in 1 .. Len(gis) :
         LET g == gis[k]
             off == index.chrom_offset[g.ch_id]
         IN /\ offsets[k][1] = off + CountBelow(index, g.ch_id, g.start)
            /\ offsets[k][2] = off + CountBelow(index, g.ch_id, g.stop)
            /\ offsets[k][1] =
                 off + get_offset_within_chrom(index, g.ch_id, g.start)
            /\ offsets[k][2] =
                 off + get_offset_within_chrom(index, g.ch_id, g.stop)
            /\ offsets[k][1] <= offsets[k][2]
            /\ offsets[k][2] - offsets[k][1] =
                 CountWithin(index, g.ch_id, g.start, g.stop)
    /\ (index = S1Index /\ gis = S2Intervals) =>
         offsets = << <<1, 3>>, <<3, 4>> >>

\* the offsets of scenario S2 were computed on the S1 index
C16_Witness ==
  /\ q_pc = "offsets"
  /\ index = S1Index
  /\ gis = S2Intervals
  /\ Len(offsets) = 2

RECURSIVE SumField(_, _, _)
\* the sum of field f of the records of cpgs numbered in S
SumField(cpgs, S, f) ==
  IF S = {} THEN 0
  ELSE LET k == CHOOSE j \in S : TRUE
       IN cpgs[k][f] + SumField(cpgs, S \ {k}, f)

\* C17: interval aggregation.  For every methylome and every offset pair
\* (lo, hi) of the request, the count record returned for it is (sum of m,
\* sum of u, number of records with m + u > 0) over cpgs[lo .. hi), and the
\* response holds one record for each interval of the request, in the order
\* of the request; scenario S3 gives (5, 25, 2) and (7, 3, 1).
C17_IntervalAggregation ==
  q_pc = "counted" =>
    /\ Len(counts) = Len(gis)
    /\ \A k \in 1 .. Len(gis) :
         LET slice == (offsets[k][1] + 1) .. offsets[k][2]
         IN counts[k] =
              <<SumField(meth, slice, 1), SumField(meth, slice, 2),
                Cardinality({j \in slice : meth[j][1] + meth[j][2] > 0})>>
    /\ (index = S1Index /\ gis = S2Intervals /\ meth = S3Methylome) =>
         counts = << <<5, 25, 2>>, <<7, 3, 1>> >>

\* the counts of scenario S3 were computed
C17_Witness ==
  /\ q_pc = "counted"
  /\ index = S1Index
  /\ gis = S2Intervals
  /\ meth = S3Methylome
  /\ Len(counts) = 2

(***************************************************************************)
(* Properties of the methylome set (SpecCache).                            *)
(***************************************************************************)
\* the thread loading accession a
LoaderOf(a) == CHOOSE t \in Threads : t \in Loaders(a)

\* C5: single flight.  At any time at most one load of an accession is
\* outstanding, whatever the number of concurrent gets; the callers that
\* found the load pending wait for it, and when it completes each of them
\* receives its result: the handle of the loader, or its error.
C5_SingleFlight ==
  /\ [](\A a \in Accessions :
          /\ Cardinality(load_calls[a]) <= 1
          /\ Cardinality(Loaders(a)) <= 1
          /\ (entry[a].state = "loading") = (load_calls[a] # {})
          /\ Waiters(a) # {} =>
               /\ Cardinality(Loaders(a)) = 1
               /\ load_calls[a] = {entry[a].obj})
  /\ [][\A t \in Threads :
          (tstate[t] = "waiting" /\ tstate'[t] # "waiting") =>
            LET l == LoaderOf(tacc[t]) IN
            /\ tstate[l] = "loading"
            /\ tstate'[l] \in {"holding", "failed"}
            /\ tstate'[t] = tstate'[l]
            /\ thandle'[t] = thandle'[l]
            /\ tstate'[t] = "holding" => thandle'[t] = entry[tacc[t]].obj]_vars

\* a second caller waits for the load the first one started
C5_Witness ==
  \E a \in Accessions :
    /\ Waiters(a) # {}
    /\ Loaders(a) # {}
    /\ Cardinality(load_calls[a]) = 1

\* C6: the number of methylomes resident in the set never exceeds its
\* capacity, whatever gets (hits, misses, failed loads) came before.
C6_CapacityBound ==
  /\ Cardinality(Resident) <= max_live_methylomes
  /\ Cardinality(InMap) <= max_live_methylomes
  /\ Len(lru) <= max_live_methylomes

\* the set is full after a miss at capacity evicted an entry
C6_Witness ==
  /\ Cardinality(Resident) = max_live_methylomes
  /\ n_loads > max_live_methylomes
  /\ \E a \in Accessions : a \notin Resident /\ payload[1] = <<"freed">>

\* the resident accessions in the order of their last successful get
ByLastGet == SelectSeq(get_order, LAMBDA a : a \in Resident)

C8_HandleOutlivesEviction ==
  /\ \A t \in Threads :
       tstate[t] = "holding" =>
         /\ payload[thandle[t]] = <<"data", tacc[t]>>
         /\ refcount[thandle[t]] >= 1
  /\ \A o \in Objects :
       payload[o] = <<"freed">> =>
         /\ refcount[o] = 0
         /\ \A t \in Threads : thandle[t] # o
         /\ \A a \in Accessions : entry[a].obj # o

\* a thread holds a handle to a methylome that was evicted meanwhile
C8_Witness ==
  \E t \in Threads :
    /\ tstate[t] = "holding"
    /\ entry[tacc[t]].obj # thandle[t]
    /\ Cardinality(Resident) = max_live_methylomes

\* C9: when a load fails the pending entry is removed, so that a later get
\* starts a fresh load; the loader and every waiter of that load get the
\* error; no entry and no caller of another accession is touched.
C9_LoadFailure ==
  /\ [](\A a \in Accessions :
          /\ entry[a].state = "loading" => Loaders(a) # {}
          /\ Waiters(a) # {} => entry[a].state = "loading")
  /\ [][\A t \in Threads :
          (tstate[t] = "loading" /\ tstate'[t] = "failed") =>
            LET a == tacc[t] IN
            /\ entry'[a] = Absent
            /\ \A w \in Waiters(a) : tstate'[w] = "failed"
            /\ \A b \in Accessions \ {a} : entry'[b] = entry[b]
            /\ \A u \in Threads :
                 (tacc[u] # a \/ tstate[u] \notin {"loading", "waiting"}) =>
                   /\ tstate'[u] = tstate[u]
                   /\ thandle'[u] = thandle[u]
            /\ UNCHANGED <<lru, refcount, payload, get_order>>]_vars

\* a load failed, its caller still has the error in hand, and a later get
\* of the same accession has started a fresh load, while another accession
\* is resident
C9_Witness ==
  \E t, u \in Threads :
    /\ t # u
    /\ tstate[t] = "failed" /\ tstate[u] = "loading"
    /\ tacc[t] = tacc[u]
    /\ entry[tacc[t]].state = "loading"
    /\ \E b \in Accessions \ {tacc[t]} : entry[b].state = "ready"

(***************************************************************************)
(* The bins command.                                                       *)
(***************************************************************************)
\* the number of bins of size b over a chromosome of size s
CeilDiv(s, b) == (s + b - 1) \div b

\* the bins of chromosome c: [k b, min((k + 1) b, s)) for k below ceil(s / b)
ExpectedBins(c) ==
  LET s == index.chrom_size[c]
  IN [k \in 1 .. CeilDiv(s, bin_size) |->
        [ch |-> c, beg |-> (k - 1) * bin_size,
         end |-> IF k * bin_size < s THEN k * bin_size ELSE s]]

\* the bins the kernel has emitted for chromosome c, in the order emitted
BinsOf(c) == SelectSeq(bins, LAMBDA b : b.ch = c)

\* s is a prefix of t
IsPrefix(s, t) == Len(s) <= Len(t) /\ SubSeq(t, 1, Len(s)) = s

\* C18: bin partition.  For every bin size and every chromosome size the
\* kernel emits, for a chromosome it has left, exactly the ceil(S / B) bins
\* [k B, min((k + 1) B, S)), and for the chromosome it is at the first of
\* them; the chromosomes are taken in the order of the index; when the
\* kernel is done write_bins consumes exactly one result for each bin.
C18_BinPartition ==
  /\ Len(results) = Len(bins)
  /\ \A k \in 1 .. Len(bins) - 1 : bins[k].ch <= bins[k + 1].ch
  /\ \A c \in 1 .. Len(index.chrom_size) :
       IF c < ch THEN BinsOf(c) = ExpectedBins(c)
       ELSE IsPrefix(BinsOf(c), ExpectedBins(c))
  /\ b_pc = "done" =>
       write_bins_walk(index.chrom_size, bin_size, 1, 0, 0) = Len(results)

\* the positions of chromosome b.ch (numbered from 1) that fall in bin b
InBin(b) ==
  {j \in 1 .. Len(index.positions[b.ch]) :
     b.beg <= index.positions[b.ch][j] /\ index.positions[b.ch][j] < b.end}

\* the records of the positions of chromosome b.ch that fall in bin b
RecordsInBin(b) == {index.chrom_offset[b.ch] + j : j \in InBin(b)}

\* the run of scenario S4
IsS4 == index = S1Index /\ meth = S3Methylome /\ bin_size = 4

\* C19: bin aggregation.  The result emitted for bin [s, e) of chromosome c
\* is (sum of m, sum of u, number of records with m + u > 0) over exactly
\* the CpGs of c with s <= p < e, the record of the j-th position of c being
\* cpgs[chrom_offset[c] + j]; every CpG of a chromosome the kernel has left
\* was counted in exactly one bin; scenario S4 gives (10, 0, 1), (5, 25, 2)
\* and (7, 3, 1).
C19_BinAggregation ==
  /\ \A k \in 1 .. Len(results) :
       LET recs == RecordsInBin(bins[k])
       IN results[k] =
            <<SumField(meth, recs, 1), SumField(meth, recs, 2),
              Cardinality({j \in recs : meth[j][1] + meth[j][2] > 0})>>
  /\ \A c \in 1 .. Len(index.chrom_size) :
       c < ch =>
         \A j \in 1 .. Len(index.positions[c]) :
           Cardinality({k \in 1 .. Len(bins) :
                          bins[k].ch = c /\ j \in InBin(bins[k])}) = 1
  /\ (IsS4 /\ b_pc = "done") =>
       results = << <<10, 0, 1>>, <<5, 25, 2>>, <<7, 3, 1>> >>

\* C20: the sums never wrap.  For every bin, however many records it covers
\* and whatever their counts are, the accumulated n_meth, n_unmeth and
\* n_covered are the exact sums of the records that were added.
C20_SumsNeverWrap == results = results_exact

(***************************************************************************)
(* Saturation (SpecRound).                                                 *)
(***************************************************************************)
\* the absolute value
Abs(x) == IF x < 0 THEN -x ELSE x

\* C21: saturation.  conditional_round_to_fit leaves (a, b) unchanged when
\* max(a, b) <= MAX; otherwise the larger result is MAX and the other one is
\* within 1 of the input scaled by MAX / max(a, b), the scaled pair keeping
\* the order of the inputs; in every case both results are <= MAX, and
\* (MAX + 1, MAX + 1) becomes (MAX, MAX).
C21_Saturation ==
  r_pc = "rounded" =>
    LET a == counts_in[1]
        b == counts_in[2]
        c == Max2(a, b)
    IN /\ n_meth <= MaxCount /\ n_unmeth <= MaxCount
       /\ c <= MaxCount => <<n_meth, n_unmeth>> = counts_in
       /\ c > MaxCount =>
            /\ Max2(n_meth, n_unmeth) = MaxCount
            /\ Abs(n_meth * c - a * MaxCount) <= c
            /\ Abs(n_unmeth * c - b * MaxCount) <= c
            /\ a <= b => n_meth <= n_unmeth
            /\ b <= a => n_unmeth <= n_meth
       /\ counts_in = <<MaxCount + 1, MaxCount + 1>> =>
            <<n_meth, n_unmeth>> = <<MaxCount, MaxCount>>

\* a pair with one count above MAX and the other one positive and smaller
\* was scaled down
C21_Witness ==
  /\ r_pc = "rounded"
  /\ counts_in[1] > MaxCount
  /\ 0 < counts_in[2] /\ counts_in[2] < counts_in[1]
  /\ n_unmeth < counts_in[2]

(***************************************************************************)
(* The commands (SpecServerCmd, SpecIndexCmd).                             *)
(***************************************************************************)
\* main did e
Did(e) == \E k \in 1 .. Len(effects) : effects[k] = e

\* C22: startup failures are fatal.  If the methylome directory cannot be
\* resolved, if an index or its metadata in the index directory cannot be
\* read, or if the constructor of the server reports an error, the server
\* command never calls run() and returns a non-zero exit code, in
\* daemonized and in non-daemonized mode alike.
C22_StartupFailuresFatal ==
  (\/ cmd_in.canonical \in {"ec", "empty"}
   \/ cpg_index_set(cmd_in.index_dir, 1, 0).read_failed
   \/ cmd_in.server_ec) =>
    /\ ~Did("run")
    /\ cmd_pc = "exited" => exit_code = "EXIT_FAILURE"

\* path ends in ".cpg_idx" after a file name that is not empty
HasIndexExtension(path) ==
  /\ Len(path) >= 3
  /\ SubSeq(path, Len(path) - 1, Len(path)) = <<".", "cpg_idx">>
  /\ path[Len(path) - 2] # "/"

C24_MakeConfig ==
  (cmd = "server" /\ cmd_in.parse = "ok" /\ cmd_in.config_out # "") =>
    /\ ~Did("logging") /\ ~Did("server") /\ ~Did("run")
    /\ cmd_pc = "exited" =>
         (exit_code = "EXIT_SUCCESS" <=> Did("config_written"))

(***************************************************************************)
(* The client (SpecClient, SpecClientLive).                                *)
(***************************************************************************)
\* C25: the client writes its output and returns EXIT_SUCCESS only if no
\* stage of the transaction failed, and then the status is success; once a
\* stage has failed, or the server has answered with an error header, the
\* status of the finished transaction is not success, the output is not
\* written, and the value main returns is EXIT_FAILURE
C25_ExitCodeFollowsStatus ==
  /\ (c_exit = "EXIT_SUCCESS" \/ c_out) =>
       (~c_hist.failed /\ c_status = "ok" /\ c_out /\ c_exit = "EXIT_SUCCESS")
  /\ (c_hist.failed /\ c_hist.finished) => (c_status # "ok" /\ ~c_out)
  /\ (c_hist.failed /\ main_pc = "returned") => c_exit = "EXIT_FAILURE"

\* the server has answered with an error header, no counts came, and main
\* has returned EXIT_FAILURE without an output
C25_Witness ==
  /\ c_hdr = "error"
  /\ c_status = "read_counts"
  /\ main_pc = "returned"
  /\ c_exit = "EXIT_FAILURE"
  /\ ~c_out

\* C26: once the deadline of a stage has passed while the operation of that
\* stage was outstanding, check_deadline shuts the socket down and closes
\* it (the first thing the claim says happens; the error of the operation
\* and the status follow from it)
C26_DeadlineClosesSocket ==
  (c_hist.expired_in # "none") ~> (c_shutdown /\ c_socket = "closed")

\* C27: while an operation of the client on the network is outstanding and
\* has not been cancelled, a wait on the deadline timer with a finite expiry
\* is pending, or its handler is about to start it again
C27_DeadlineArmed ==
  (c_op \in ClientOps /\ ~c_aborted) =>
    \/ deadline.wait = "pending" /\ deadline.expiry = "finite"
    \/ deadline.wait = "queued"

\* C28: once the transaction has finished, with or without an error,
\* io_context.run() eventually returns
C28_RunReturns == c_hist.finished ~> (main_pc # "run")

(***************************************************************************)
(* The byte size of the offsets (SpecConnWide).                            *)
(***************************************************************************)
\* C30: for every n_intervals the server has accepted, the byte count
\* get_offsets_n_bytes returns is 8 x n_intervals, and the bytes the server
\* has read and still waits for add up to 8 x n_intervals
C30_OffsetBytesNoWrap ==
  Logged("read_offsets") =>
    /\ get_offsets_n_bytes(n_intervals) = SizeofOffset * n_intervals
    /\ offset_byte + offset_remaining = SizeofOffset * n_intervals

(***************************************************************************)
(* The framing between the client and the server (SpecWire, SpecWireLive). *)
(***************************************************************************)
\* the server has read the whole request and has run the handler on it
Accepted == Logged("handle_get_counts")

\* C29: the client writes the header and then the offsets, request_buf_size
\* + 8 x n_intervals bytes and no more, and the server reads them in that
\* order; when the server runs the handler it has read exactly those bytes
\* and its n_intervals is that of the client; the counts it then sends after
\* the response header are n_intervals records of the client, a client that
\* finishes without an error has read exactly the header and the counts the
\* server sent, and on a reliable connection every transaction ends, an
\* accepted one with the client finishing without an error
C29_Framing ==
  /\ [](cl_written <= RequestBytes(cl_n) /\ Consumed <= cl_written)
  /\ [](Accepted => (n_intervals = cl_n /\ Consumed = RequestBytes(cl_n)))
  /\ []((Accepted /\ Len(sent) >= 2) =>
          (Len(sent) = 2 /\ sent[1] = to_chars_hdr(resp_hdr)
             /\ sent[2] = <<"counts", cl_n>>))
  /\ []((c_hist.finished /\ c_status = "ok") =>
          (Accepted /\ Len(sent) = 2 /\ CountsSent = cl_n))
  /\ (Accepted ~> (c_hist.finished /\ c_status = "ok"))
  /\ <>c_hist.finished

(***************************************************************************)
(* The loop over the bins and its cursors (SpecBins).                      *)
(***************************************************************************)
\* C31: for every bin emitted, the start plus the bin size fits the
\* unsigned integer, so that neither min(i + B, chrom_size) nor i += B
\* wraps, and the end of the bin is above its start
C31_BinLoopNoWrap ==
  \A k \in 1 .. Len(bins) :
    /\ bins[k].beg + bin_size <= UintMax
    /\ bins[k].end > bins[k].beg

\* C32: while the bins of chromosome ch are aggregated, the record cursor is
\* chrom_offset[ch] plus the number of positions the position cursor has
\* passed; the cursors never pass the positions of the chromosome nor the
\* records of the methylome; when the loop over the bins is left every
\* position of the chromosome has been passed; and one bin moves both
\* cursors forward together, over the positions below its end that were not
\* passed yet, so that every position is consumed once
C32_LockstepCursors ==
  /\ [](b_pc = "bin" =>
          /\ cpg_itr = index.chrom_offset[ch] + posn_itr
          /\ posn_itr <= Len(index.positions[ch])
          /\ cpg_itr <= index.chrom_offset[ch] + Len(index.positions[ch])
          /\ cpg_itr <= Len(meth)
          /\ ~(bin_i < index.chrom_size[ch]) =>
               posn_itr = Len(index.positions[ch]))
  /\ [][(b_pc = "bin" /\ Len(bins') = Len(bins) + 1) =>
          /\ posn_itr' >= posn_itr
          /\ cpg_itr' - cpg_itr = posn_itr' - posn_itr
          /\ posn_itr' = Max2(posn_itr,
                              CountBelow(index, ch, bins'[Len(bins')].end))
          /\ results_exact'[Len(bins')][3] <= posn_itr' - posn_itr]_vars

\* the second chromosome is under way: some of its positions have been
\* consumed, others have not, and the records before it belong to the first
C32_Witness ==
  /\ b_pc = "bin"
  /\ ch = 2
  /\ index.chrom_offset[ch] > 0
  /\ posn_itr > 0
  /\ posn_itr < Len(index.positions[ch])

(***************************************************************************)
(* The CpG index set (SpecSet).                                            *)
(***************************************************************************)
\* the files of the directory whose name is that of an index
IndexFilesOf(dir) == {k \in 1 .. Len(dir) : dir[k].assembly # ""}

\* reading the index or the metadata of a file of the directory fails
SomeReadFails(dir) ==
  \E k \in IndexFilesOf(dir) : ~dir[k].index_ok \/ ~dir[k].meta_ok

\* the assemblies of the index files of the directory
AssembliesOf(dir) == {dir[k].assembly : k \in IndexFilesOf(dir)}

\* C33: once the set is constructed the two maps have the same keys; when
\* the read of an index or of a metadata file fails both maps are empty,
\* and otherwise the keys are the assemblies of the index files, each with
\* the index and the metadata of one file of that assembly; and
\* get_cpg_index_with_meta answers invalid_argument exactly for the names
\* that are no key, and the index and the metadata of the name otherwise
C33_IndexSetAllOrNothing ==
  set_pc = "constructed" =>
    /\ DOMAIN idx_map = DOMAIN meta_map
    /\ SomeReadFails(set_dir) => (idx_map = EmptyMap /\ meta_map = EmptyMap)
    /\ ~SomeReadFails(set_dir) => DOMAIN idx_map = AssembliesOf(set_dir)
    /\ \A a \in DOMAIN idx_map :
         /\ idx_map[a] \in IndexFilesOf(set_dir)
         /\ set_dir[idx_map[a]].assembly = a
         /\ meta_map[a] = idx_map[a]
    /\ set_answer.ec # "none" =>
         /\ set_answer.ec = "invalid_argument"
              <=> set_answer.query \notin DOMAIN idx_map
         /\ set_answer.ec = "ok" =>
              /\ set_answer.index = idx_map[set_answer.query]
              /\ set_answer.meta = meta_map[set_answer.query]
         /\ set_answer.ec \in {"ok", "invalid_argument"}

\* an index was read and a later file could not be: the set is empty and
\* the assembly that was read first is not found
C33_Witness ==
  /\ set_pc = "constructed"
  /\ Len(set_dir) >= 2
  /\ set_dir[1].assembly # "" /\ set_dir[1].index_ok /\ set_dir[1].meta_ok
  /\ ~set_dir[2].meta_ok /\ set_dir[2].index_ok
  /\ set_dir[2].assembly \notin {"", set_dir[1].assembly}
  /\ idx_map = EmptyMap
  /\ set_answer.query = set_dir[1].assembly
  /\ set_answer.ec = "invalid_argument"

(***************************************************************************)
(* The exit code of the index command (SpecIndexCmd).                      *)
(***************************************************************************)
\* main did d and later e, each once, or did not do e
DidBefore(d, e) ==
  \A k \in 1 .. Len(effects) :
    effects[k] = e =>
      /\ \E j \in 1 .. (k - 1) : effects[j] = d
      /\ \A j \in 1 .. Len(effects) : effects[j] = e => j = k

\* the index was constructed and both files were written without an error
AllWritten ==
  /\ cmd_in.construct = "ok" /\ Did("read_genome")
  /\ cmd_in.index_write = "ok" /\ Did("write_index")
  /\ cmd_in.meta_write = "ok" /\ Did("write_meta")

\* the payload is written after the construction and before the metadata,
\* and the metadata only after a construction and a payload write that
\* succeeded
WritesInOrder ==
  /\ DidBefore("read_genome", "write_index")
  /\ DidBefore("write_index", "write_meta")
  /\ Did("write_index") => cmd_in.construct = "ok"
  /\ Did("write_meta") =>
       (cmd_in.construct = "ok" /\ cmd_in.index_write = "ok")

\* C34 as stated: the index command returns EXIT_SUCCESS only if the
\* construction of the index, the write of the payload and the write of the
\* metadata all succeeded; the payload is written before the metadata, and
\* the metadata is never written when the construction or the payload write
\* failed
C34_SuccessOnlyAfterWrites ==
  cmd = "index" =>
    /\ exit_code = "EXIT_SUCCESS" => AllWritten
    /\ WritesInOrder

\* C34, amended: the same, except that the command also returns EXIT_SUCCESS
\* when it prints its help (--help, or no argument at all), and then it has
\* constructed and written nothing
C34_SuccessAfterWritesOrHelp ==
  cmd = "index" =>
    /\ exit_code = "EXIT_SUCCESS" =>
         \/ AllWritten
         \/ /\ cmd_in.parse = "help_requested"
            /\ effects = <<>>
    /\ WritesInOrder

\* the index was constructed, the write of the payload failed, and the
\* command has returned EXIT_FAILURE without writing the metadata
C34_Witness ==
  /\ cmd = "index" /\ cmd_pc = "exited"
  /\ cmd_in.construct = "ok"
  /\ cmd_in.index_write = "error"
  /\ Did("write_index") /\ ~Did("write_meta")
  /\ exit_code = "EXIT_FAILURE"
(***************************************************************************)
(* The compression adapter (SpecZlib).                                     *)
(***************************************************************************)
\* C35: compress and decompress return ok only if deflate / inflate has
\* reported Z_STREAM_END, and no assertion on a return code of zlib ever
\* finds its condition false: every other code has made the function
\* return an error before.
C35_ExplicitErrors ==
  /\ (z_pc = "returned" /\ z_result = "ok") => z_ret.run = "Z_STREAM_END"
  /\ ~z_assert
  /\ z_pc # "aborted"

\* C36: when compress or decompress has returned after its stream was
\* initialised successfully, deflateEnd / inflateEnd has been called
\* exactly once.
C36_StreamReleased ==
  (z_pc = "returned" /\ z_ret.init = "Z_OK") => z_ends = 1

(***************************************************************************)
(* The download (SpecDownload).                                            *)
(***************************************************************************)
\* the download has failed in a stage after the output file was opened
DlFailedAfterOpen ==
  \/ dl_failed \in {"resolve", "connect", "write", "read"}
  \/ dl_failed = "shutdown" /\ dl_in.shutdown_ec # "not_connected"

\* C37: when download has returned after a failure of resolve, connect,
\* the sending of the request, the reading of the response, or a shutdown
\* error other than not_connected, the output file does not exist and the
\* error code is set; when it has returned without error, the header map
\* has a Status and a Reason entry.
C37_DownloadCleanup ==
  dl_pc = "returned" =>
    /\ DlFailedAfterOpen => (~dl_file /\ dl_ec # "none")
    /\ dl_ec = "none" => {"Status", "Reason"} \subseteq DOMAIN dl_header

\* a download whose output file existed before has failed while the
\* response was read, and download has returned
C37_Witness ==
  /\ dl_pc = "returned"
  /\ dl_failed = "read"
  /\ dl_in.existed
  /\ ~dl_file
  /\ dl_ec = "error"

(***************************************************************************)
(* The reads of from_buffer (SpecDecodeFull).                              *)
(***************************************************************************)
\* C38: from_buffer reads no byte of the request buffer at an index of
\* buf_size or above: once a buffer is parsed, no outcome of the parse of
\* that buffer has dereferenced the cursor at data_end.
C38_ReadsInsideBuffer ==
  rq_pc = "parsed" => \A r \in from_buffer(buf) : ~r.oob

====
